---------------------------- MODULE Spec2Model ----------------------------
(***************************************************************************)
(* Xcelerator Alpha strategy: the simulated ledger (broker/backtest.py),   *)
(* the portfolio classifier (logic/strategy.py, optimization/engines.py),  *)
(* the capital planners (logic/planner.py), the order executors            *)
(* (execution/backtest.py, execution/live.py) and the backtest driver      *)
(* (execution/backtest.py).                                                *)
(*                                                                         *)
(* Money is counted in whole paise (Close prices are exchange quotes in    *)
(* whole paise); quantities are whole shares.                              *)
(***************************************************************************)
EXTENDS Integers, Sequences, FiniteSets, TLC

\* ------------------------------------------------------------------ bounds
MaxTx == 2          \* longest transaction log explored
MaxQty == 2         \* largest order quantity
MaxPrice == 2       \* largest order price
MaxCapital == 2     \* largest initial capital
MaxTopN == 2        \* largest top_n
MaxBand == 3        \* largest band
MaxHeld == 3        \* most symbols held when run_strategy is called
MaxPlanCapital == 12 \* largest capital handed to a planner
MaxHeldQty == 2     \* largest quantity of a holding handed to a planner
MaxPlanPrice == 4   \* largest closing price handed to a planner
MaxExecRows == 3    \* most rows of an execution plan handed to an executor

\* ------------------------------------------------------- generic helpers
SeqSum(s, F(_)) ==
    LET RECURSIVE go(_)
        go(i) == IF i = 0 THEN 0 ELSE go(i - 1) + F(s[i])
    IN go(Len(s))

Contains(s, x) == \E i \in 1..Len(s) : s[i] = x

IndexOf(s, x) ==
    IF Contains(s, x) THEN CHOOSE i \in 1..Len(s) : s[i] = x /\ \A j \in 1..(i - 1) : s[j] # x
    ELSE 0

SeqSet(s) == { s[i] : i \in 1..Len(s) }

RemoveAt(s, i) == [j \in 1..(Len(s) - 1) |-> IF j < i THEN s[j] ELSE s[j + 1]]

\* ================================================================ ledger
\* BacktestBroker: cash, holdings (one dict per symbol, in order of first
\* purchase), the transaction list.  buy_price is a quotient of integers
\* and is kept as numerator and denominator.
VARIABLES
    initial_capital,   \* BacktestBroker.initial_capital
    cash,              \* BacktestBroker._cash
    holdings,          \* BacktestBroker.holdings
    transactions,      \* BacktestBroker.transactions
    ret                \* value the last place_market_order call returned

\* ------------------------------------------------------------ classifier
VARIABLES
    classify_args,     \* arguments of run_strategy and what rank() and
                       \* is_market_strong() answer for them
    classify_ret       \* what run_strategy returned

\* --------------------------------------------------------------- planner
VARIABLES
    plan_args,         \* arguments of the planner call
    plan_ret           \* the execution plan it returned

\* -------------------------------------------------------------- executor
VARIABLES
    exec_args,         \* the execution plan and the flags of the executor call
    exec_ret           \* the broker calls it made, in order; trade_count

\* ------------------------------------------------------- backtest driver
VARIABLES
    bt_args,           \* the configuration of the engine and the calendars of
                       \* the run_backtest call
    bt                 \* the locals and the result fields of run_backtest

ledgerVars == <<initial_capital, cash, holdings, transactions, ret>>
classifyVars == <<classify_args, classify_ret>>
planVars == <<plan_args, plan_ret>>
execVars == <<exec_args, exec_ret>>
driverVars == <<bt_args, bt>>
vars == <<initial_capital, cash, holdings, transactions, ret,
          classify_args, classify_ret, plan_args, plan_ret, exec_args, exec_ret,
          bt_args, bt>>

LedgerSymbols == {"A", "B"}
TransactionTypes == {"BUY", "SELL", "HOLD"}
Dates == {1}
Quantities == (-1)..MaxQty
OrderPrices == 0..MaxPrice
Capitals == 0..MaxCapital

None == <<>>
NotRun == [run |-> "none"]

\* next(h for h in self.holdings if h["symbol"] == symbol, None), as an index
find_holding(hs, symbol) ==
    IF \E i \in 1..Len(hs) : hs[i].symbol = symbol
    THEN CHOOSE i \in 1..Len(hs) :
            hs[i].symbol = symbol /\ \A j \in 1..(i - 1) : hs[j].symbol # symbol
    ELSE 0

\* if quantity <= 0: return None
quantity_invalid_off(quantity) == quantity < 0
quantity_invalid(quantity) == quantity <= 0

\* if transaction_value > self.cash: return None
insufficient_funds_price_only(quantity, price, c) == price > c
insufficient_funds(quantity, price, c) == quantity * price > c

\* if not holding or holding["quantity"] < quantity: return None
insufficient_shares_missing_only(hs, symbol, quantity) == find_holding(hs, symbol) = 0
insufficient_shares(hs, symbol, quantity) ==
    \/ find_holding(hs, symbol) = 0
    \/ hs[find_holding(hs, symbol)].quantity < quantity

\* transaction_value = quantity * price
transaction_value_price_only(quantity, price) == price
transaction_value(quantity, price) == quantity * price

\* self.cash -= transaction_value
deduct_cash(c, value) == c - value

\* self.cash += transaction_value
add_cash_debits(c, value) == c - value
add_cash(c, value) == c + value

\* if holding["quantity"] == 0: self.holdings.remove(holding)
quantity_becomes_0_never(left) == FALSE
quantity_becomes_0(left) == left = 0

\* self.transactions.append({...})
transactions_append_overwrites(txs, record) == <<record>>
transactions_append(txs, record) == Append(txs, record)

order_id(symbol, date, transaction_type) == <<"MOCK_ORDER", symbol, date, transaction_type>>

\* BacktestBroker.place_market_order on the ledger L = [cash, holdings, transactions]
place_market_order(L, symbol, quantity, transaction_type, price, date) ==
    LET rejected == [cash |-> L.cash, holdings |-> L.holdings,
                     transactions |-> L.transactions, ret |-> None]
        value == transaction_value(quantity, price)
        i == find_holding(L.holdings, symbol)
    IN
    IF quantity_invalid(quantity) THEN rejected
    ELSE IF transaction_type = "BUY" THEN
        IF insufficient_funds(quantity, price, L.cash) THEN rejected
        ELSE
            LET newcash == deduct_cash(L.cash, value)
                newholdings ==
                    IF i # 0
                    THEN LET h == L.holdings[i]
                             total_quantity == h.quantity + quantity
                         IN [L.holdings EXCEPT ![i] =
                               [symbol |-> symbol,
                                quantity |-> total_quantity,
                                buy_price |->
                                  [num |-> h.quantity * h.buy_price.num
                                             + value * h.buy_price.den,
                                   den |-> h.buy_price.den * total_quantity]]]
                    ELSE Append(L.holdings,
                                [symbol |-> symbol, quantity |-> quantity,
                                 buy_price |-> [num |-> price, den |-> 1]])
            IN [cash |-> newcash,
                holdings |-> newholdings,
                transactions |-> transactions_append(L.transactions,
                    [date |-> date, symbol |-> symbol, action |-> "BUY",
                     quantity |-> quantity, price |-> price, cash_after |-> newcash]),
                ret |-> order_id(symbol, date, transaction_type)]
    ELSE IF transaction_type = "SELL" THEN
        IF insufficient_shares(L.holdings, symbol, quantity) THEN rejected
        ELSE
            LET h == L.holdings[i]
                left == h.quantity - quantity
                newholdings ==
                    IF quantity_becomes_0(left) THEN RemoveAt(L.holdings, i)
                    ELSE [L.holdings EXCEPT ![i].quantity = left]
                newcash == add_cash(L.cash, value)
            IN [cash |-> newcash,
                holdings |-> newholdings,
                transactions |-> transactions_append(L.transactions,
                    [date |-> date, symbol |-> symbol, action |-> "SELL",
                     quantity |-> quantity, price |-> price, cash_after |-> newcash]),
                ret |-> order_id(symbol, date, transaction_type)]
    ELSE [cash |-> L.cash, holdings |-> L.holdings, transactions |-> L.transactions,
          ret |-> order_id(symbol, date, transaction_type)]

Ledger == [cash |-> cash, holdings |-> holdings, transactions |-> transactions]

\* BacktestBroker.__init__
LedgerInit ==
    /\ initial_capital \in Capitals
    /\ cash = initial_capital
    /\ holdings = <<>>
    /\ transactions = <<>>
    /\ ret = None

\* one call of place_market_order by a client of the broker; the log is
\* explored up to MaxTx entries, rejected calls included at that length
PlaceMarketOrder ==
    /\ \E symbol \in LedgerSymbols, quantity \in Quantities,
          transaction_type \in TransactionTypes, price \in OrderPrices, date \in Dates :
        LET r == place_market_order(Ledger, symbol, quantity, transaction_type, price, date)
        IN /\ Len(r.transactions) <= MaxTx
           /\ cash' = r.cash
           /\ holdings' = r.holdings
           /\ transactions' = r.transactions
           /\ ret' = r.ret
    /\ UNCHANGED <<initial_capital, classifyVars, planVars, execVars, driverVars>>

\* BacktestBroker.reset(initial_capital=None)
Reset ==
    /\ \E given \in BOOLEAN, capital \in Capitals :
          initial_capital' = IF given THEN capital ELSE initial_capital
    /\ cash' = initial_capital'
    /\ holdings' = <<>>
    /\ transactions' = <<>>
    /\ ret' = None
    /\ UNCHANGED <<classifyVars, planVars, execVars, driverVars>>

LedgerNext == PlaceMarketOrder \/ Reset

LedgerSpecInit ==
    /\ LedgerInit
    /\ classify_args = NotRun /\ classify_ret = NotRun
    /\ plan_args = NotRun /\ plan_ret = NotRun
    /\ exec_args = NotRun /\ exec_ret = NotRun
    /\ bt_args = NotRun /\ bt = NotRun

SpecLedger == LedgerSpecInit /\ [][LedgerNext]_vars

\* ============================================================ classifier
\* Symbols.  price_data and the ranking are keyed "<symbol>.NS"; holdings
\* carry the bare symbol.
StockSymbols == <<"A", "B", "C", "D", "E">>
cash_equivalent == "LIQUIDBEES.NS"
NSTable == { <<"A", "A.NS">>, <<"B", "B.NS">>, <<"C", "C.NS">>, <<"D", "D.NS">>,
             <<"E", "E.NS">>, <<"LIQUIDBEES", "LIQUIDBEES.NS">> }

\* ".NS" in symbol
has_NS(symbol) == \E p \in NSTable : p[2] = symbol
\* symbol.replace(".NS", "")
replace_NS(symbol) ==
    IF has_NS(symbol) THEN (CHOOSE p \in NSTable : p[2] = symbol)[1] ELSE symbol
\* symbol if ".NS" in symbol else f"{symbol}.NS"
with_NS(symbol) ==
    IF has_NS(symbol) THEN symbol ELSE (CHOOSE p \in NSTable : p[1] = symbol)[2]

\* BacktestBroker.get_portfolio_value at one date: price_data maps the keys
\* that have a Close on that date to it; a holding without one is valued
\* at its buy price.  The value is the fraction num / den.
RECURSIVE holdings_value(_, _)
holdings_value(hs, price_data) ==
    IF hs = <<>> THEN [num |-> 0, den |-> 1]
    ELSE LET holding == hs[1]
             symbol_key == IF holding.symbol \in DOMAIN price_data
                           THEN holding.symbol ELSE with_NS(holding.symbol)
             term == IF symbol_key \in DOMAIN price_data
                     THEN [num |-> holding.quantity * price_data[symbol_key], den |-> 1]
                     ELSE [num |-> holding.quantity * holding.buy_price.num,
                           den |-> holding.buy_price.den]
             rest == holdings_value(Tail(hs), price_data)
         IN [num |-> term.num * rest.den + rest.num * term.den,
             den |-> term.den * rest.den]

get_portfolio_value(L, price_data) ==
    LET value == holdings_value(L.holdings, price_data)
    IN [num |-> L.cash * value.den + value.num, den |-> value.den]

Min(a, b) == IF a <= b THEN a ELSE b
Max(a, b) == IF a >= b THEN a ELSE b

\* s[:k] of Python: a negative k counts from the end
py_slice_to(s, k) ==
    SubSeq(s, 1, IF k >= 0 THEN Min(k, Len(s)) ELSE Max(Len(s) + k, 0))

\* DataFrame.head(n), n >= 0
head(s, n) == SubSeq(s, 1, Min(n, Len(s)))

MapSeq(s, F(_)) == [i \in 1..Len(s) |-> F(s[i])]

JumpThresholdPct == 15

\* A price frame as the jump filter reads it: whether as_of_date is a row,
\* how many rows there are up to as_of_date, the close of the row before
\* as_of_date and the close on as_of_date.
\* strategy.py 102-123: TRUE iff the candidate is skipped
jump_skipped_never(price_data, symbol) == FALSE
jump_skipped(price_data, symbol) ==
    LET symbol_ns == with_NS(symbol) IN
    IF symbol_ns \notin DOMAIN price_data THEN FALSE          \* df is None
    ELSE LET df == price_data[symbol_ns] IN
         IF ~df.has_date \/ df.rows < 2 THEN FALSE
         ELSE \* (curr_close / prev_close) - 1 > 0.15
              df.curr_close * 100 > (100 + JumpThresholdPct) * df.prev_close

\* rank_pos <= top_n + band, for a symbol of symbols_ranked
within_band_topn_only(symbols_ranked, sym, top_n, band) ==
    IndexOf(symbols_ranked, sym) <= top_n
within_band(symbols_ranked, sym, top_n, band) ==
    IndexOf(symbols_ranked, sym) <= top_n + band

\* [s for s in top_n_symbols if s not in held_stocks][: top_n - len(held_stocks)]
raw_new_entries_of(symbols_ranked, held_stocks, top_n) ==
    py_slice_to(SelectSeq(head(symbols_ranked, top_n), LAMBDA s : ~Contains(held_stocks, s)),
                top_n - Len(held_stocks))

\* strategy.py 50-62: the removed list returned in a weak market
weak_market_removed_sells_only(held_symbols, cash_symbol_clean) ==
    SelectSeq(held_symbols, LAMBDA s : s # cash_symbol_clean)
weak_market_removed(held_symbols, cash_symbol_clean) ==
    IF Contains(held_symbols, cash_symbol_clean) /\ Len(held_symbols) = 1
    THEN <<>>
    ELSE held_symbols

Raised(what) ==
    [run |-> what, raised |-> TRUE, market_regime |-> "STRONG",
     recommendations |-> <<>>, held_stocks |-> <<>>, raw_new_entries |-> <<>>,
     new_entries |-> <<>>, removed_stocks |-> <<>>, final_portfolio |-> <<>>]

\* logic/strategy.py run_strategy.  ranked is what rank() returns (keys,
\* best first), market_is_strong what is_market_strong() returns.
run_strategy(price_data, ranked, market_is_strong, held_symbols, top_n, band) ==
    LET cash_symbol_clean == replace_NS(cash_equivalent)
        is_in_cash == Contains(held_symbols, cash_symbol_clean) /\ Len(held_symbols) = 1
        ret0 == [run |-> "run_strategy", raised |-> FALSE,
                 market_regime |-> "WEAK", recommendations |-> <<>>,
                 held_stocks |-> <<>>, raw_new_entries |-> <<>>, new_entries |-> <<>>,
                 removed_stocks |-> <<>>, final_portfolio |-> <<>>]
    IN
    IF ~market_is_strong THEN
        IF is_in_cash THEN ret0
        ELSE [ret0 EXCEPT
                !.recommendations =
                    MapSeq(SelectSeq(held_symbols, LAMBDA s : s # cash_symbol_clean),
                           LAMBDA s : [symbol |-> s, action |-> "SELL"]),
                !.removed_stocks = weak_market_removed(held_symbols, cash_symbol_clean)]
    ELSE IF ranked = <<>> THEN Raised("run_strategy")   \* ranked_df["total_rank"]: KeyError
    ELSE
        LET symbols_ranked == MapSeq(ranked, replace_NS)
            kept(sym) == /\ sym # cash_symbol_clean
                         /\ Contains(symbols_ranked, sym)
                         /\ within_band(symbols_ranked, sym, top_n, band)
            held_stocks == SelectSeq(held_symbols, kept)
            removed_stocks == SelectSeq(held_symbols, LAMBDA s : ~kept(s))
            raw_new_entries == raw_new_entries_of(symbols_ranked, held_stocks, top_n)
            new_entries == SelectSeq(raw_new_entries,
                                     LAMBDA s : ~jump_skipped(price_data, s))
        IN [run |-> "run_strategy", raised |-> FALSE, market_regime |-> "STRONG",
            recommendations |->
                MapSeq(removed_stocks, LAMBDA s : [symbol |-> s, action |-> "SELL"])
                \o MapSeq(new_entries, LAMBDA s : [symbol |-> s, action |-> "BUY"]),
            held_stocks |-> held_stocks,
            raw_new_entries |-> raw_new_entries,
            new_entries |-> new_entries,
            removed_stocks |-> removed_stocks,
            final_portfolio |-> held_stocks \o new_entries]

\* optimization/engines.py WeightedBacktestEngine.run_strategy: no cash
\* equivalent, no jump filter
weighted_run_strategy(price_data, ranked, market_is_strong, held_symbols, top_n, band) ==
    LET ret0 == [run |-> "weighted", raised |-> FALSE,
                 market_regime |-> "WEAK", recommendations |-> <<>>,
                 held_stocks |-> <<>>, raw_new_entries |-> <<>>, new_entries |-> <<>>,
                 removed_stocks |-> <<>>, final_portfolio |-> <<>>]
    IN
    IF ~market_is_strong THEN [ret0 EXCEPT !.removed_stocks = held_symbols]
    ELSE IF ranked = <<>> THEN Raised("weighted")
    ELSE
        LET symbols_ranked == MapSeq(ranked, replace_NS)
            kept(sym) == /\ Contains(symbols_ranked, sym)
                         /\ within_band(symbols_ranked, sym, top_n, band)
            held_stocks == SelectSeq(held_symbols, kept)
            removed_stocks == SelectSeq(held_symbols, LAMBDA s : ~kept(s))
            new_entries == raw_new_entries_of(symbols_ranked, held_stocks, top_n)
        IN [ret0 EXCEPT !.market_regime = "STRONG",
                        !.held_stocks = held_stocks,
                        !.raw_new_entries = new_entries,
                        !.new_entries = new_entries,
                        !.removed_stocks = removed_stocks,
                        !.final_portfolio = held_stocks \o new_entries]

\* ---- the inputs explored
\* Stock symbols are interchangeable, so a ranking lists the first k stock
\* keys in order; the cash equivalent (live.py 224-227 keeps its prices in
\* the frame handed to rank()) is absent or at any position.
InsertAt(s, i, x) == SubSeq(s, 1, i - 1) \o <<x>> \o SubSeq(s, i, Len(s))
StockKeys == MapSeq(StockSymbols, with_NS)
Rankings ==
    UNION { {SubSeq(StockKeys, 1, k)}
            \cup { InsertAt(SubSeq(StockKeys, 1, k), i, cash_equivalent) : i \in 1..(k + 1) }
          : k \in 0..Len(StockKeys) }

HeldPool == StockSymbols \o <<replace_NS(cash_equivalent)>>
\* the holdings of a broker: distinct symbols, at most MaxHeld of them
HeldLists ==
    { SelectSeq(HeldPool, LAMBDA s : s \in S) :
        S \in { T \in SUBSET { HeldPool[i] : i \in 1..Len(HeldPool) } :
                  Cardinality(T) <= MaxHeld } }

NoRow == [has_date |-> FALSE, rows |-> 0, prev_close |-> 0, curr_close |-> 0]
Frames == { NoRow,
            [has_date |-> TRUE, rows |-> 2, prev_close |-> 100, curr_close |-> 115],
            [has_date |-> TRUE, rows |-> 2, prev_close |-> 100, curr_close |-> 116] }
\* price frames of the keys the jump filter can read (the first top_n of
\* the ranking); the other frames are never read
PriceData(ranked, top_n) ==
    [ { ranked[i] : i \in 1..Min(top_n, Len(ranked)) } -> Frames ]

\* In a weak market run_strategy returns before rank() is called and reads
\* neither top_n nor band.
ClassifyInit ==
    /\ \E strong \in BOOLEAN, h \in HeldLists, n \in 1..MaxTopN, b \in 0..MaxBand,
          r \in Rankings :
         /\ strong \/ (r = <<>> /\ n = 1 /\ b = 0)
         /\ \E pd \in PriceData(r, n) :
              classify_args = [price_data |-> pd, ranked |-> r,
                               market_is_strong |-> strong, held_symbols |-> h,
                               top_n |-> n, band |-> b]
    /\ classify_ret = NotRun

RunStrategy ==
    /\ classify_ret = NotRun
    /\ classify_ret' = run_strategy(classify_args.price_data, classify_args.ranked,
                                    classify_args.market_is_strong,
                                    classify_args.held_symbols,
                                    classify_args.top_n, classify_args.band)
    /\ UNCHANGED <<classify_args, ledgerVars, planVars, execVars, driverVars>>

WeightedRunStrategy ==
    /\ classify_ret = NotRun
    /\ classify_ret' = weighted_run_strategy(classify_args.price_data, classify_args.ranked,
                                    classify_args.market_is_strong,
                                    classify_args.held_symbols,
                                    classify_args.top_n, classify_args.band)
    /\ UNCHANGED <<classify_args, ledgerVars, planVars, execVars, driverVars>>

ClassifyNext == RunStrategy \/ WeightedRunStrategy

ClassifySpecInit ==
    /\ ClassifyInit
    /\ initial_capital = 0 /\ cash = 0 /\ holdings = <<>> /\ transactions = <<>>
    /\ ret = None
    /\ plan_args = NotRun /\ plan_ret = NotRun
    /\ exec_args = NotRun /\ exec_ret = NotRun
    /\ bt_args = NotRun /\ bt = NotRun

SpecClassify == ClassifySpecInit /\ [][ClassifyNext]_vars

\* =============================================================== planner
\* transaction_cost_pct = 0.001190 = CostNum / CostDen.  Amounts that carry
\* the cost reserve are fractions of a paisa; they are kept exactly, as
\* integers in units of 1/CostDen paisa ("scaled"), and a per-stock share of
\* such an amount as a numerator with its divisor.
CostNum == 119
CostDen == 100000
Scaled(x) == x * CostDen

\* round(x, 2) of an amount in rupees, i.e. to whole paise; x is scaled
round2(x) == (2 * x + CostDen) \div (2 * CostDen)

PlanSymbols == <<"A", "B", "C">>
PlanSymbolSet == { PlanSymbols[i] : i \in 1..Len(PlanSymbols) }
\* alphabetical position, for sort_values(by="Symbol")
SymbolOrd(sym) == IndexOf(PlanSymbols, sym)

Perms(S) == { p \in [1..Cardinality(S) -> S] : \A i, j \in 1..Cardinality(S) :
                                                    i # j => p[i] # p[j] }

\* df.sort_values("gap", ascending=False): the largest gap, i.e. the smallest
\* current_value, first; rows with equal gaps in the order tie gives them
\* (the order the sort happens to leave them in)
sorted_by_gap(rows, tie) ==
    LET before(i, j) ==
            \/ rows[i].current_value < rows[j].current_value
            \/ rows[i].current_value = rows[j].current_value
               /\ IndexOf(tie, rows[i].symbol) < IndexOf(tie, rows[j].symbol)
        pos(i) == 1 + Cardinality({ j \in 1..Len(rows) : before(j, i) })
    IN [k \in 1..Len(rows) |-> rows[CHOOSE i \in 1..Len(rows) : pos(i) = k]]

BuyRow(symbol, price, quantity) ==
    [Symbol |-> symbol, Action |-> "BUY", Price |-> round2(Scaled(price)),
     Quantity |-> quantity, Invested |-> round2(Scaled(quantity * price))]

\* "Buy the minimum of what we can afford and what we need"
shares_to_buy_needed_only(max_shares, shares_needed) == shares_needed
shares_to_buy(max_shares, shares_needed) == Min(max_shares, shares_needed)

\* the loop of _fill_underweight_gaps_only (planner.py 185-215); the target
\* is tnum / tden, scaled
RECURSIVE fill_gaps_loop(_, _, _, _, _, _)
fill_gaps_loop(rows, i, remaining_capital, tnum, tden, execution_data) ==
    IF i > Len(rows) \/ remaining_capital <= 0 THEN execution_data
    ELSE
        LET price == rows[i].price
            max_shares == remaining_capital \div Scaled(price)
            \* gap = target_weight_value - current_value
            shares_needed == (tnum - Scaled(rows[i].current_value) * tden)
                                \div (tden * Scaled(price))
            to_buy == shares_to_buy(max_shares, shares_needed)
        IN IF to_buy > 0
           THEN fill_gaps_loop(rows, i + 1,
                               remaining_capital - Scaled(to_buy * price),
                               tnum, tden,
                               Append(execution_data,
                                      BuyRow(rows[i].symbol, price, to_buy)))
           ELSE fill_gaps_loop(rows, i + 1, remaining_capital, tnum, tden, execution_data)

\* _fill_underweight_gaps_only: targets are the records of a DataFrame, so
\* all carry the same columns
_fill_underweight_gaps_only(targets, total_capital, tnum, tden, tie) ==
    IF targets = <<>> THEN <<>>
    ELSE IF ~({"symbol", "price", "current_value"} \subseteq DOMAIN targets[1]) THEN <<>>
    ELSE
        LET underweight == SelectSeq(targets,
                               LAMBDA r : Scaled(r.current_value) * tden < tnum)
            sorted == sorted_by_gap(underweight, tie)
        IN fill_gaps_loop(sorted, 1, total_capital, tnum, tden, <<>>)

InvestedSum(rows) == SeqSum(rows, LAMBDA r : r.Invested)

MinPrice(df_holdings) ==
    CHOOSE m \in { df_holdings[i].price : i \in 1..Len(df_holdings) } :
        \A i \in 1..Len(df_holdings) : m <= df_holdings[i].price

\* one pass of the while loop of _maximize_capital_deployment (270-296)
round_orders_of(df_holdings, remaining_capital) ==
    LET num_stocks == Len(df_holdings)
        qty(price) ==
            \* per_stock_allocation >= price
            IF remaining_capital >= num_stocks * Scaled(price)
            THEN Max(1, remaining_capital \div (num_stocks * Scaled(price)))
            ELSE 0
        affordable == SelectSeq(df_holdings,
                          LAMBDA r : qty(r.price) > 0
                                     /\ Scaled(qty(r.price) * r.price) <= remaining_capital)
    IN MapSeq(affordable, LAMBDA r : BuyRow(r.symbol, r.price, qty(r.price)))

RECURSIVE deploy_rounds(_, _, _)
deploy_rounds(df_holdings, remaining_capital, execution_data) ==
    IF remaining_capital < Scaled(MinPrice(df_holdings)) THEN execution_data
    ELSE LET round_orders == round_orders_of(df_holdings, remaining_capital)
         IN IF round_orders = <<>> THEN execution_data
            ELSE deploy_rounds(df_holdings,
                               remaining_capital - Scaled(InvestedSum(round_orders)),
                               execution_data \o round_orders)

\* "Consolidate orders for same symbol": one row per symbol, in the order
\* of first appearance
consolidate(execution_data) ==
    LET first == SelectSeq([i \in 1..Len(execution_data) |-> i],
                     LAMBDA i : \A j \in 1..(i - 1) :
                                   execution_data[j].Symbol # execution_data[i].Symbol)
        same(sym) == SelectSeq(execution_data, LAMBDA r : r.Symbol = sym)
    IN MapSeq(first, LAMBDA i :
                [execution_data[i] EXCEPT
                    !.Quantity = SeqSum(same(execution_data[i].Symbol),
                                        LAMBDA r : r.Quantity),
                    !.Invested = InvestedSum(same(execution_data[i].Symbol))])

\* _maximize_capital_deployment with target_weight_value = None
_maximize_capital_deployment(df_holdings, additional_capital, tie) ==
    IF df_holdings = <<>> THEN <<>>
    ELSE
        LET total_value == Scaled(SeqSum(df_holdings, LAMBDA r : r.current_value))
                             + additional_capital
            underweight_exec ==
                _fill_underweight_gaps_only(df_holdings, additional_capital,
                                            total_value, Len(df_holdings), tie)
            remaining_capital == additional_capital - Scaled(InvestedSum(underweight_exec))
        IN consolidate(deploy_rounds(df_holdings, remaining_capital, underweight_exec))

\* latest_close: the symbols that have a Close on as_of_date, with it
has_price(latest_close, sym) == sym \in DOMAIN latest_close /\ latest_close[sym] # 0

\* capital - capital * transaction_cost_pct, scaled
after_reserve(capital) == capital * (CostDen - CostNum)

EmptyPlan == <<>>

\* plan_equity_investment (Rank and Weight % columns are left out)
plan_equity_investment(symbols, latest_close, total_capital, tie) ==
    LET investable_capital == after_reserve(total_capital)
        \* per_stock_alloc >= price
        purchasable_stocks ==
            SelectSeq(symbols,
                LAMBDA sym : /\ has_price(latest_close, sym)
                             /\ investable_capital >= Len(symbols) * Scaled(latest_close[sym]))
        df_holdings == MapSeq(purchasable_stocks,
                          LAMBDA sym : [symbol |-> sym, price |-> latest_close[sym],
                                        current_value |-> 0])
    IN IF purchasable_stocks = <<>> THEN EmptyPlan
       ELSE _maximize_capital_deployment(df_holdings, investable_capital, tie)

\* plan_capital_addition
plan_capital_addition(previous_holdings, latest_close, additional_capital, tie) ==
    LET rows == MapSeq(SelectSeq(previous_holdings,
                                 LAMBDA h : has_price(latest_close, h.symbol)),
                       LAMBDA h : [symbol |-> h.symbol, price |-> latest_close[h.symbol],
                                   current_value |-> h.quantity * latest_close[h.symbol]])
    IN IF rows = <<>> THEN EmptyPlan
       ELSE _maximize_capital_deployment(rows, after_reserve(additional_capital), tie)


\* sorted(unused_symbols, key=price): stable
sorted_by_price(symbols, latest_close) ==
    LET before(i, j) == \/ latest_close[symbols[i]] < latest_close[symbols[j]]
                        \/ latest_close[symbols[i]] = latest_close[symbols[j]] /\ i < j
        pos(i) == 1 + Cardinality({ j \in 1..Len(symbols) : before(j, i) })
    IN [k \in 1..Len(symbols) |-> symbols[CHOOSE i \in 1..Len(symbols) : pos(i) = k]]

\* _fallback_allocation_cheapest_symbol; universe_symbols in the order the
\* caller's set is iterated
_fallback_allocation_cheapest_symbol(remaining_capital, all_allocated_symbols, universe_symbols, latest_close) ==
    IF remaining_capital <= 0 THEN <<>>
    ELSE
        LET unused_symbols ==
                SelectSeq(universe_symbols,
                          LAMBDA sym : sym \notin all_allocated_symbols
                                       /\ has_price(latest_close, sym))
            fallback_universe == sorted_by_price(unused_symbols, latest_close)
            qty(sym) == remaining_capital \div Scaled(latest_close[sym])
            buyable == SelectSeq(fallback_universe, LAMBDA sym : qty(sym) > 0)
        IN IF buyable = <<>> THEN <<>>
           ELSE << BuyRow(buyable[1], latest_close[buyable[1]], qty(buyable[1])) >>

\* prev_df with current_price and current_value (planner.py 524-525)
prev_df_of(previous_holdings, latest_close) ==
    MapSeq(previous_holdings,
           LAMBDA h :
             LET current_price == IF h.symbol \in DOMAIN latest_close
                                  THEN latest_close[h.symbol] ELSE 0
             IN [symbol |-> h.symbol, quantity |-> h.quantity,
                 current_price |-> current_price,
                 current_value |-> h.quantity * current_price])

keep_rows_all(prev_df, symbols) == prev_df
keep_rows(prev_df, symbols) == SelectSeq(prev_df, LAMBDA r : Contains(symbols, r.symbol))

PositionRow_trimmed(r, action) ==
    [Symbol |-> r.symbol, Action |-> action, Price |-> round2(Scaled(r.current_price)),
     Quantity |-> 1, Invested |-> round2(Scaled(r.current_price))]
PositionRow(r, action) ==
    [Symbol |-> r.symbol, Action |-> action, Price |-> round2(Scaled(r.current_price)),
     Quantity |-> r.quantity, Invested |-> round2(Scaled(r.current_value))]

\* freed_capital = max(0, total_sell_value - total_sell_value * 2 * pct), scaled
freed_capital_of(df_removed) ==
    Max(0, SeqSum(df_removed, LAMBDA r : r.current_value) * (CostDen - 2 * CostNum))

\* "Step 1: Allocate to new entries first"; the target is tnum / tden
RECURSIVE new_entries_loop(_, _, _, _, _, _, _)
new_entries_loop(new_entries, i, latest_close, freed_capital, tnum, tden, new_entries_exec) ==
    IF i > Len(new_entries) THEN new_entries_exec
    ELSE
        LET sym == new_entries[i]
            used == Scaled(InvestedSum(new_entries_exec))
        IN IF sym \notin DOMAIN latest_close
           THEN new_entries_loop(new_entries, i + 1, latest_close, freed_capital,
                                 tnum, tden, new_entries_exec)
           ELSE
             LET price == latest_close[sym]
                 \* int(min(target_weight_value, freed_capital - used) // price)
                 qty == Min(tnum \div (tden * Scaled(price)),
                            (freed_capital - used) \div Scaled(price))
                 invested == Scaled(qty * price)
             IN IF qty > 0 /\ used + invested <= freed_capital
                THEN new_entries_loop(new_entries, i + 1, latest_close, freed_capital,
                                      tnum, tden,
                                      Append(new_entries_exec, BuyRow(sym, price, qty)))
                ELSE new_entries_loop(new_entries, i + 1, latest_close, freed_capital,
                                      tnum, tden, new_entries_exec)

RowSymbols(rows) == { rows[i].Symbol : i \in 1..Len(rows) }

\* the steps of plan_portfolio_rebalance (planner.py 527-591): the SELL
\* rows, the target tnum / tden (scaled), "Step 1" new entries, "Step 2"
\* gap fill and "Step 3" fallback; tie is the order in which
\* set(held_stocks + new_entries) is iterated
rebalance_steps(held_stocks, new_entries, removed_stocks, previous_holdings, latest_close, tie) ==
    LET prev_df == prev_df_of(previous_holdings, latest_close)
        df_held == keep_rows(prev_df, held_stocks)
        df_removed == keep_rows(prev_df, removed_stocks)
        sell_rows == MapSeq(df_removed, LAMBDA r : PositionRow(r, "SELL"))
        freed_capital == freed_capital_of(df_removed)
        tnum == Scaled(SeqSum(df_held, LAMBDA r : r.current_value)) + freed_capital
        tden == Len(held_stocks) + Len(new_entries)
        new_entries_exec ==
            new_entries_loop(new_entries, 1, latest_close, freed_capital, tnum, tden, <<>>)
        remaining1 == freed_capital - Scaled(InvestedSum(new_entries_exec))
        held_exec == _fill_underweight_gaps_only(df_held, remaining1, tnum, tden, tie)
        remaining == remaining1 - Scaled(InvestedSum(held_exec))
        all_allocated == RowSymbols(new_entries_exec \o held_exec \o sell_rows)
        all_final == SelectSeq(tie, LAMBDA sym : Contains(held_stocks, sym)
                                                 \/ Contains(new_entries, sym))
        fallback_exec ==
            _fallback_allocation_cheapest_symbol(remaining, all_allocated,
                                                 all_final, latest_close)
    IN [sell_rows |-> sell_rows, fallback_exec |-> fallback_exec,
        new_entries_exec |-> new_entries_exec, held_exec |-> held_exec,
        hold_rows |-> MapSeq(df_held, LAMBDA r : PositionRow(r, "HOLD")),
        df_held |-> df_held, tnum |-> tnum, tden |-> tden]

\* execution_data of plan_portfolio_rebalance before the final groupby
\* (planner.py 530-603)
rebalance_execution_data(held_stocks, new_entries, removed_stocks, previous_holdings, latest_close, tie) ==
    LET steps == rebalance_steps(held_stocks, new_entries, removed_stocks,
                                 previous_holdings, latest_close, tie)
    IN steps.sell_rows \o steps.fallback_exec \o steps.new_entries_exec
         \o steps.held_exec \o steps.hold_rows

\* "SELL" > "HOLD" > "BUY": sort_values(by="Action", ascending=False)
ActionOrd(action) == CASE action = "SELL" -> 0 [] action = "HOLD" -> 1 [] OTHER -> 2

\* groupby(Symbol, Rank, Action, Price).agg(sum), then
\* sort_values(by=[Action, Symbol], ascending=[False, True])
groupby_sorted(execution_data) ==
    LET keys == { <<execution_data[i].Symbol, execution_data[i].Action,
                    execution_data[i].Price>> : i \in 1..Len(execution_data) }
        group(k) == SelectSeq(execution_data,
                        LAMBDA r : <<r.Symbol, r.Action, r.Price>> = k)
        before(a, b) ==
            \/ ActionOrd(a[2]) < ActionOrd(b[2])
            \/ a[2] = b[2] /\ SymbolOrd(a[1]) < SymbolOrd(b[1])
            \/ a[2] = b[2] /\ a[1] = b[1] /\ a[3] < b[3]
        pos(k) == 1 + Cardinality({ j \in keys : before(j, k) })
        key(n) == CHOOSE k \in keys : pos(k) = n
    IN [n \in 1..Cardinality(keys) |->
          [Symbol |-> key(n)[1], Action |-> key(n)[2], Price |-> key(n)[3],
           Quantity |-> SeqSum(group(key(n)), LAMBDA r : r.Quantity),
           Invested |-> InvestedSum(group(key(n)))]]

\* plan_portfolio_rebalance raises KeyError when it groups an empty frame
rebalance_raises(held_stocks, new_entries, removed_stocks, previous_holdings, latest_close, tie) ==
    /\ previous_holdings # <<>>
    /\ rebalance_execution_data(held_stocks, new_entries, removed_stocks,
                                previous_holdings, latest_close, tie) = <<>>

plan_portfolio_rebalance(held_stocks, new_entries, removed_stocks, previous_holdings, latest_close, tie) ==
    IF previous_holdings = <<>> THEN EmptyPlan
    ELSE groupby_sorted(rebalance_execution_data(held_stocks, new_entries,
                            removed_stocks, previous_holdings, latest_close, tie))

\* ------------------------------------------------- planner specification
PlanPrices == 2..MaxPlanPrice
PlanCapitals == 0..MaxPlanCapital
HeldQuantities == 1..MaxHeldQty
TieOrders == Perms(PlanSymbolSet)

\* the symbols of S in the order of PlanSymbols
InPoolOrder(S) == SelectSeq(PlanSymbols, LAMBDA sym : sym \in S)

\* latest_close: any of the symbols may lack a Close on as_of_date
LatestCloses(S) == UNION { [D -> PlanPrices] : D \in SUBSET S }

HoldingsOf(S, qty) ==
    MapSeq(InPoolOrder(S), LAMBDA sym : [symbol |-> sym, quantity |-> qty[sym]])

EquityInit ==
    \E S \in SUBSET PlanSymbolSet, capital \in PlanCapitals, tie \in TieOrders :
        \E latest_close \in LatestCloses(S) :
            plan_args = [run |-> "plan_equity_investment", symbols |-> InPoolOrder(S),
                         latest_close |-> latest_close, capital |-> capital, tie |-> tie]

AdditionInit ==
    \E S \in SUBSET PlanSymbolSet, capital \in PlanCapitals, tie \in TieOrders :
        \E latest_close \in LatestCloses(S), qty \in [S -> HeldQuantities] :
            plan_args = [run |-> "plan_capital_addition",
                         previous_holdings |-> HoldingsOf(S, qty),
                         latest_close |-> latest_close, capital |-> capital, tie |-> tie]

\* every holding is either kept or sold (live.py 262-265, engines.py 47-93);
\* new entries are not held
RebalanceInit ==
    \E H \in SUBSET PlanSymbolSet, tie \in TieOrders :
        \E R \in SUBSET (PlanSymbolSet \ H) :
            \E N \in SUBSET (PlanSymbolSet \ (H \cup R)) :
                \E latest_close \in LatestCloses(H \cup R \cup N),
                   qty \in [H \cup R -> HeldQuantities] :
                    plan_args = [run |-> "plan_portfolio_rebalance",
                                 held_stocks |-> InPoolOrder(H),
                                 new_entries |-> InPoolOrder(N),
                                 removed_stocks |-> InPoolOrder(R),
                                 previous_holdings |-> HoldingsOf(H \cup R, qty),
                                 latest_close |-> latest_close, tie |-> tie]

PlannerInit ==
    /\ EquityInit \/ AdditionInit \/ RebalanceInit
    /\ plan_ret = NotRun

PlanEquityInvestment ==
    /\ plan_args.run = "plan_equity_investment"
    /\ plan_ret = NotRun
    /\ plan_ret' = [run |-> plan_args.run, raised |-> FALSE,
                    plan |-> plan_equity_investment(plan_args.symbols,
                                 plan_args.latest_close, plan_args.capital,
                                 plan_args.tie)]
    /\ UNCHANGED <<plan_args, ledgerVars, classifyVars, execVars, driverVars>>

PlanCapitalAddition ==
    /\ plan_args.run = "plan_capital_addition"
    /\ plan_ret = NotRun
    /\ plan_ret' = [run |-> plan_args.run, raised |-> FALSE,
                    plan |-> plan_capital_addition(plan_args.previous_holdings,
                                 plan_args.latest_close, plan_args.capital,
                                 plan_args.tie)]
    /\ UNCHANGED <<plan_args, ledgerVars, classifyVars, execVars, driverVars>>

PlanPortfolioRebalance ==
    /\ plan_args.run = "plan_portfolio_rebalance"
    /\ plan_ret = NotRun
    /\ plan_ret' =
         IF rebalance_raises(plan_args.held_stocks, plan_args.new_entries,
                             plan_args.removed_stocks, plan_args.previous_holdings,
                             plan_args.latest_close, plan_args.tie)
         THEN [run |-> plan_args.run, raised |-> TRUE, plan |-> EmptyPlan]
         ELSE [run |-> plan_args.run, raised |-> FALSE,
               plan |-> plan_portfolio_rebalance(plan_args.held_stocks,
                            plan_args.new_entries, plan_args.removed_stocks,
                            plan_args.previous_holdings, plan_args.latest_close,
                            plan_args.tie)]
    /\ UNCHANGED <<plan_args, ledgerVars, classifyVars, execVars, driverVars>>

PlannerNext == PlanEquityInvestment \/ PlanCapitalAddition \/ PlanPortfolioRebalance

PlannerSpecInit ==
    /\ PlannerInit
    /\ initial_capital = 0 /\ cash = 0 /\ holdings = <<>> /\ transactions = <<>>
    /\ ret = None
    /\ classify_args = NotRun /\ classify_ret = NotRun
    /\ exec_args = NotRun /\ exec_ret = NotRun
    /\ bt_args = NotRun /\ bt = NotRun

SpecPlanner == PlannerSpecInit /\ [][PlannerNext]_vars


\* ============================================================== executor
\* The order method the backtest executor calls on its broker,
\* place_order(symbol, quantity, transaction_type, price, date): the
\* simulated broker's order contract, which BacktestBroker implements as
\* place_market_order.
place_order(L, symbol, quantity, transaction_type, price, date) ==
    place_market_order(L, symbol, quantity, transaction_type, price, date)

\* for action in ["SELL", "BUY"]
execution_order_buy_first == <<"BUY", "SELL">>
execution_order == <<"SELL", "BUY">>

\* the rows the executors' loops reach a broker call with, in that order:
\* per action of execution_order, the rows of that action, but "if
\* quantity <= 0: continue"
RECURSIVE orders_from(_, _)
orders_from(exec_df, k) ==
    IF k > Len(execution_order) THEN <<>>
    ELSE SelectSeq(exec_df, LAMBDA row : row.Action = execution_order[k]
                                         /\ row.Quantity > 0)
           \o orders_from(exec_df, k + 1)

BrokerCall(row) ==
    [symbol |-> row.Symbol, quantity |-> row.Quantity, transaction_type |-> row.Action]

\* BacktestEngine._execute_backtest_orders: the broker calls one after the
\* other on the ledger; trade_count counts the order ids returned
RECURSIVE place_all(_, _, _, _, _)
place_all(L, trade_count, orders, i, date) ==
    IF i > Len(orders) THEN [ledger |-> L, trade_count |-> trade_count]
    ELSE LET r == place_order([cash |-> L.cash, holdings |-> L.holdings,
                               transactions |-> L.transactions],
                              orders[i].Symbol, orders[i].Quantity, orders[i].Action,
                              orders[i].Price, date)
         IN place_all(r, IF r.ret # None THEN trade_count + 1 ELSE trade_count,
                      orders, i + 1, date)

_execute_backtest_orders(L, exec_df, date) ==
    \* "if exec_df.empty: return"
    LET orders == IF exec_df = <<>> THEN <<>> ELSE orders_from(exec_df, 1)
        done == place_all(L, 0, orders, 1, date)
    IN [ledger |-> done.ledger, trade_count |-> done.trade_count,
        submitted |-> MapSeq(orders, BrokerCall)]

\* execution/live.py _execute_orders: a failing broker call is caught and
\* the loop goes on; with dry_run nothing is placed
_execute_orders(exec_df, dry_run) ==
    IF dry_run THEN <<>> ELSE MapSeq(orders_from(exec_df, 1), BrokerCall)

\* execution/place_orders.py execute_orders: asks for confirmation first
execute_orders(exec_df, confirmed, dry_run) ==
    IF ~confirmed THEN <<>> ELSE _execute_orders(exec_df, dry_run)

\* ------------------------------------------------ executor specification
ExecActions == {"SELL", "HOLD", "BUY"}
ExecQuantities == (-1)..MaxQty
\* the price of a plan row is the symbol's price of the day
ExecPriceOf(symbol) == IF symbol = "A" THEN 1 ELSE MaxPrice

\* plans: up to MaxExecRows rows in any order, one row per symbol and action
ExecPlans ==
    UNION { { df \in [1..n -> [Symbol : LedgerSymbols, Action : ExecActions,
                               Quantity : ExecQuantities]] :
                \A i, j \in 1..n :
                    i # j => <<df[i].Symbol, df[i].Action>> # <<df[j].Symbol, df[j].Action>> }
            : n \in 0..MaxExecRows }

WithPrice(df) ==
    MapSeq(df, LAMBDA row : [Symbol |-> row.Symbol, Action |-> row.Action,
                             Quantity |-> row.Quantity, Price |-> ExecPriceOf(row.Symbol)])

FreshLedger(capital) ==
    [cash |-> capital, holdings |-> <<>>, transactions |-> <<>>, ret |-> None]

\* the ledger the backtest executor starts from: new, or holding MaxQty of A
ExecLedgerInit ==
    /\ initial_capital \in {0, MaxQty, MaxCapital}
    /\ \E bought \in BOOLEAN :
         LET L == IF bought /\ initial_capital > 0
                  THEN place_market_order(FreshLedger(initial_capital), "A", MaxQty,
                                          "BUY", ExecPriceOf("A"), 1)
                  ELSE FreshLedger(initial_capital)
         IN /\ cash = L.cash
            /\ holdings = L.holdings
            /\ transactions = L.transactions
            /\ ret = L.ret

ExecutorInit ==
    /\ \E df \in ExecPlans :
         \/ /\ ExecLedgerInit
            /\ exec_args = [run |-> "_execute_backtest_orders", exec_df |-> WithPrice(df),
                            before |-> Len(transactions)]
         \/ /\ LedgerInit /\ initial_capital = 0
            /\ \E dry_run \in BOOLEAN :
                 exec_args = [run |-> "_execute_orders", exec_df |-> WithPrice(df),
                              dry_run |-> dry_run]
         \/ /\ LedgerInit /\ initial_capital = 0
            /\ \E dry_run \in BOOLEAN, confirmed \in BOOLEAN :
                 exec_args = [run |-> "execute_orders", exec_df |-> WithPrice(df),
                              dry_run |-> dry_run, confirmed |-> confirmed]
    /\ exec_ret = NotRun

ExecuteBacktestOrders ==
    /\ exec_args.run = "_execute_backtest_orders"
    /\ exec_ret = NotRun
    /\ \E date \in Dates :
         LET r == _execute_backtest_orders(Ledger @@ [ret |-> ret], exec_args.exec_df, date)
         IN /\ cash' = r.ledger.cash
            /\ holdings' = r.ledger.holdings
            /\ transactions' = r.ledger.transactions
            /\ ret' = r.ledger.ret
            /\ exec_ret' = [run |-> exec_args.run, submitted |-> r.submitted,
                            trade_count |-> r.trade_count]
    /\ UNCHANGED <<initial_capital, exec_args, classifyVars, planVars, driverVars>>

ExecuteOrdersLive ==
    /\ exec_args.run = "_execute_orders"
    /\ exec_ret = NotRun
    /\ exec_ret' = [run |-> exec_args.run,
                    submitted |-> _execute_orders(exec_args.exec_df, exec_args.dry_run)]
    /\ UNCHANGED <<exec_args, ledgerVars, classifyVars, planVars, driverVars>>

ExecuteOrdersConfirmed ==
    /\ exec_args.run = "execute_orders"
    /\ exec_ret = NotRun
    /\ exec_ret' = [run |-> exec_args.run,
                    submitted |-> execute_orders(exec_args.exec_df, exec_args.confirmed,
                                                 exec_args.dry_run)]
    /\ UNCHANGED <<exec_args, ledgerVars, classifyVars, planVars, driverVars>>

ExecutorNext == ExecuteBacktestOrders \/ ExecuteOrdersLive \/ ExecuteOrdersConfirmed

ExecutorSpecInit ==
    /\ ExecutorInit
    /\ classify_args = NotRun /\ classify_ret = NotRun
    /\ plan_args = NotRun /\ plan_ret = NotRun
    /\ bt_args = NotRun /\ bt = NotRun

SpecExecutor == ExecutorSpecInit /\ [][ExecutorNext]_vars

\* ======================================================= backtest driver
\* BacktestEngine.run_backtest over a window of days.  A date is a day
\* number; the week and the month are shortened to DaysPerWeek and
\* DaysPerMonth days so that a short window holds several rebalance dates.
\* The figures kept for the report only (total_transaction_cost, the
\* printed change of value) are left out.
MaxDay == 6         \* end_date, the last day of the window
DaysPerWeek == 2    \* days of a week
DaysPerMonth == 3   \* days of a month

start_date == 2
end_date == MaxDay

\* BacktestEngine.cash_equivalent
engine_cash_equivalent == "LIQUIDCASE"

\* the symbols of the universe, in the order of the recommendations
UniverseSymbols == <<"A", "B">>

\* a set of dates in calendar order
RECURSIVE sorted_dates(_)
sorted_dates(S) ==
    IF S = {} THEN <<>>
    ELSE LET first == CHOOSE d \in S : \A e \in S : d <= e
         IN <<first>> \o sorted_dates(S \ {first})

\* day_mapping: the number of the day of the week of a date
weekday(d) == d % DaysPerWeek
Weekdays == 0..(DaysPerWeek - 1)

\* the month-end loop of get_rebalance_dates, from the date current on
RECURSIVE month_ends(_, _)
month_ends(current, end) ==
    IF current > end THEN <<>>
    ELSE LET next_month == ((current - 1) \div DaysPerMonth + 1) * DaysPerMonth + 1
             last_day_of_month == next_month - 1
         IN (IF last_day_of_month <= end THEN <<last_day_of_month>> ELSE <<>>)
               \o month_ends(next_month, end)

\* BacktestEngine.get_rebalance_dates
get_rebalance_dates(rebalance_frequency, rebalance_day, start, end) ==
    IF rebalance_frequency = "W"
    THEN sorted_dates({ d \in start..end : weekday(d) = rebalance_day })
    ELSE IF rebalance_frequency = "M" THEN month_ends(start, end)
    ELSE <<>>

\* trading_dates of run_backtest: the dates of the benchmark series (the
\* market days) inside the window, or the rebalance dates when price_data
\* has no benchmark series
trading_dates_of(args, rebalance_dates) ==
    IF args.benchmark_in_price_data
    THEN SelectSeq(sorted_dates(args.market_days),
                   LAMBDA d : start_date <= d /\ d <= end_date)
    ELSE rebalance_dates

\* the recommendations the strategy call of the driver answers with, as a
\* list of (symbol, action): in a weak market a SELL of everything held and
\* the cash equivalent as the only BUY; in a strong market every held
\* symbol kept (HOLD) or removed (SELL) and any of the others as new entries
\* (BUY)
StrategyRec(symbol, action) == [symbol |-> symbol, action |-> action]
StrongAnswer(held_symbols, pick) ==
    LET rec(i) == LET sym == UniverseSymbols[i]
                  IN IF sym \in held_symbols
                     THEN <<StrategyRec(sym, IF sym \in pick THEN "HOLD" ELSE "SELL")>>
                     ELSE IF sym \in pick THEN <<StrategyRec(sym, "BUY")>> ELSE <<>>
        RECURSIVE go(_)
        go(i) == IF i > Len(UniverseSymbols) THEN <<>> ELSE rec(i) \o go(i + 1)
    IN go(1)
WeakAnswer(held_symbols) ==
    StrongAnswer(held_symbols, {}) \o <<StrategyRec(engine_cash_equivalent, "BUY")>>
StrategyAnswers(held_symbols) ==
    {WeakAnswer(held_symbols)}
        \cup { StrongAnswer(held_symbols, pick) : pick \in SUBSET SeqSet(UniverseSymbols) }

\* is_weak_market = any(rec["symbol"] == cash_symbol_clean and
\*                      rec["action"] in ["BUY", "HOLD"] ...)
is_weak_market(recommendations) ==
    \E i \in 1..Len(recommendations) :
        /\ recommendations[i].symbol = engine_cash_equivalent
        /\ recommendations[i].action \in {"BUY", "HOLD"}

\* "symbol in price_data and date in price_data[symbol].index"; close maps
\* the symbols that have a row on the date to its Close
has_close(close, symbol) == symbol \in DOMAIN close

\* {"symbol", "quantity", "last_price", "rank"} without the rank
StockEntry(symbol, quantity, last_price) ==
    [symbol |-> symbol, quantity |-> quantity, last_price |-> last_price]

AllocationRow(stock, action, quantity) ==
    [Symbol |-> stock.symbol, Action |-> action, Price |-> stock.last_price,
     Quantity |-> quantity, Invested |-> quantity * stock.last_price]

\* plan_allocation(held_stocks, new_stocks, removed_stocks, cash): every
\* outcome the allocator contract allows.  It raises when no bucket has a
\* stock or when stocks are removed and none is new; otherwise it returns
\* the empty plan, or SELL rows for the removed stocks at their full
\* quantity, HOLD rows for the held stocks and BUY rows that give every new
\* stock at least one share (a held stock any number) for no more than the
\* cash and the sale proceeds.
plan_allocation(held_stocks, new_stocks, removed_stocks, c) ==
    IF \/ held_stocks = <<>> /\ new_stocks = <<>> /\ removed_stocks = <<>>
       \/ removed_stocks # <<>> /\ new_stocks = <<>>
    THEN {[raised |-> TRUE, plan |-> <<>>]}
    ELSE LET targets == new_stocks \o held_stocks
             freed == c + SeqSum(removed_stocks, LAMBDA st : st.quantity * st.last_price)
             sells == [i \in 1..Len(removed_stocks) |->
                         AllocationRow(removed_stocks[i], "SELL", removed_stocks[i].quantity)]
             holds == [i \in 1..Len(held_stocks) |->
                         AllocationRow(held_stocks[i], "HOLD", held_stocks[i].quantity)]
             cost(q) == LET RECURSIVE sum(_)
                            sum(i) == IF i = 0 THEN 0
                                      ELSE sum(i - 1) + q[i] * targets[i].last_price
                        IN sum(Len(targets))
             buys(q) == LET RECURSIVE go(_)
                            go(i) == IF i > Len(targets) THEN <<>>
                                     ELSE (IF q[i] > 0
                                           THEN <<AllocationRow(targets[i], "BUY", q[i])>>
                                           ELSE <<>>) \o go(i + 1)
                        IN go(1)
         IN {[raised |-> FALSE, plan |-> <<>>]}
              \cup { [raised |-> FALSE, plan |-> sells \o holds \o buys(q)] :
                       q \in { q \in [1..Len(targets) -> 0..MaxQty] :
                                 /\ \A i \in 1..Len(new_stocks) : q[i] >= 1
                                 /\ cost(q) <= freed } }

\* what execute_initial_investment and execute_rebalance leave behind
Outcome(L, success, exec_df, trades, strategy, planner, raised) ==
    [ledger |-> L, success |-> success, exec_df |-> exec_df, trades |-> trades,
     strategy |-> strategy, planner |-> planner, raised |-> raised]

\* the plan of plan_allocation handed to _execute_backtest_orders, or the
\* exception of plan_allocation passed on
after_plan_allocation(L, out, date) ==
    IF out.raised THEN Outcome(L, FALSE, <<>>, 0, TRUE, TRUE, TRUE)
    ELSE LET r == _execute_backtest_orders(L, out.plan, date)
         IN Outcome(r.ledger, TRUE, out.plan, r.trade_count, TRUE, TRUE, FALSE)

\* the recommendations of one action that have a price on the date, as
\* stock entries with the quantity held
stock_entries(L, recommendations, close, action) ==
    LET wanted == SelectSeq(recommendations,
                    LAMBDA rec : /\ rec.action = action
                                 /\ rec.symbol # engine_cash_equivalent
                                 /\ has_close(close, rec.symbol))
    IN [i \in 1..Len(wanted) |->
          LET existing == find_holding(L.holdings, wanted[i].symbol)
              quantity == IF existing # 0 THEN L.holdings[existing].quantity ELSE 0
          IN StockEntry(wanted[i].symbol,
                        IF action \in {"HOLD", "SELL"} THEN quantity ELSE 0,
                        close[wanted[i].symbol])]

\* BacktestEngine.execute_initial_investment: the outcomes for one answer
\* of the strategy
execute_initial_investment(L, date, close, recommendations) ==
    IF is_weak_market(recommendations)
    THEN {Outcome(L, FALSE, <<>>, 0, TRUE, FALSE, FALSE)}
    ELSE IF SelectSeq(recommendations, LAMBDA rec : rec.action = "BUY") = <<>>
    THEN {Outcome(L, FALSE, <<>>, 0, TRUE, FALSE, FALSE)}
    ELSE { after_plan_allocation(L, out, date) :
             out \in plan_allocation(<<>>, stock_entries(L, recommendations, close, "BUY"),
                                     <<>>, L.cash) }

\* the weak-market branch of execute_rebalance: a SELL row for every equity
\* holding that has a price
sells_data(L, close) ==
    LET equity_holdings == SelectSeq(L.holdings,
                              LAMBDA h : h.symbol # engine_cash_equivalent)
        removed_stocks == SelectSeq(equity_holdings, LAMBDA h : has_close(close, h.symbol))
    IN [i \in 1..Len(removed_stocks) |->
          AllocationRow(StockEntry(removed_stocks[i].symbol, removed_stocks[i].quantity,
                                   close[removed_stocks[i].symbol]),
                        "SELL", removed_stocks[i].quantity)]

\* BacktestEngine.execute_rebalance
execute_rebalance(L, date, close, recommendations) ==
    IF L.holdings = <<>> THEN {Outcome(L, FALSE, <<>>, 0, FALSE, FALSE, FALSE)}
    ELSE IF is_weak_market(recommendations)
    THEN IF SelectSeq(L.holdings, LAMBDA h : h.symbol # engine_cash_equivalent) = <<>>
         THEN {Outcome(L, FALSE, <<>>, 0, TRUE, FALSE, FALSE)}
         ELSE LET exec_df == sells_data(L, close)
                  r == _execute_backtest_orders(L, exec_df, date)
              IN {Outcome(r.ledger, FALSE, exec_df, r.trade_count, TRUE, FALSE, FALSE)}
    ELSE LET held_stocks == stock_entries(L, recommendations, close, "HOLD")
             new_stocks == stock_entries(L, recommendations, close, "BUY")
             removed_stocks == stock_entries(L, recommendations, close, "SELL")
         IN IF new_stocks = <<>> /\ removed_stocks = <<>>
            THEN {Outcome(L, TRUE, <<>>, 0, TRUE, FALSE, FALSE)}
            ELSE { after_plan_allocation(L, out, date) :
                     out \in plan_allocation(held_stocks, new_stocks, removed_stocks, L.cash) }

\* "if not current_holdings: initial_invested = False"
no_current_holdings_never(current_holdings) == FALSE
no_current_holdings(current_holdings) == current_holdings = <<>>

\* "if date in rebalance_dates"
is_rebalance_date(date, rebalance_dates) == Contains(rebalance_dates, date)

\* ------------------------------------------------- driver specification
LedgerWithRet == Ledger @@ [ret |-> ret]

\* the Close values of the weighted engine's runs
WeightedPrices == {1, 2}

\* the Close of the symbols that have one on the date; in the runs of
\* BacktestEngine the Close of a symbol is the same on every date
ClosesOn(date) ==
    IF bt_args.run = "run_backtest"
    THEN { [sym \in S |-> ExecPriceOf(sym)] :
             S \in IF date \in bt_args.market_days
                   THEN SUBSET SeqSet(UniverseSymbols) ELSE {{}} }
    \* the weighted engine's runs: any Close on a market day
    ELSE UNION { [S -> WeightedPrices] :
                   S \in IF date \in bt_args.market_days
                         THEN SUBSET SeqSet(UniverseSymbols) ELSE {{}} }

NoDate == [date |-> 0, path |-> "none", invested_before |-> FALSE,
           exited_before |-> FALSE, weak |-> FALSE, buys |-> FALSE, priced |-> FALSE,
           strategy |-> FALSE, planner |-> FALSE, buy_orders |-> 0, buys_done |-> 0,
           held_before |-> FALSE]

\* bt.last describes the pass of the loop that was made last: its date, the
\* branch taken, whether the driver was invested and had left a weak
\* market before it, what the strategy answered (weak, any new entry),
\* whether every holding had a price, whether the strategy and the
\* allocator were called, and how many BUY orders were submitted from the
\* plan and how many of them the ledger executed, and whether the ledger
\* held a position before the pass.  bt.exited: a weak-market rebalance has emptied
\* the ledger.
\* BacktestEngine() and the head of run_backtest: the calendars are made
DriverInit ==
    /\ LedgerInit
    /\ \E rebalance_frequency \in {"W", "M", "D"}, rebalance_day \in Weekdays,
          market_days \in SUBSET (1..MaxDay), benchmark_in_price_data \in BOOLEAN :
         /\ rebalance_frequency # "W" => rebalance_day = 0
         /\ bt_args = [run |-> "run_backtest",
                       rebalance_frequency |-> rebalance_frequency,
                       rebalance_day |-> rebalance_day,
                       market_days |-> market_days,
                       benchmark_in_price_data |-> benchmark_in_price_data]
    /\ bt = [rebalance_dates |-> get_rebalance_dates(bt_args.rebalance_frequency,
                                     bt_args.rebalance_day, start_date, end_date),
             done |-> 0,
             initial_invested |-> FALSE,
             recorded |-> <<>>,
             portfolio_values |-> <<>>,
             trade_count |-> 0,
             raised |-> FALSE,
             exited |-> FALSE,
             last |-> NoDate]

TradingDates == trading_dates_of(bt_args, bt.rebalance_dates)

\* the date the loop of run_backtest is at
NextDate == TradingDates[bt.done + 1]

Tracked(date, close) ==
    Append(bt.portfolio_values, <<date, get_portfolio_value(Ledger, close)>>)

\* one pass of the loop on a date that is not a rebalance date
TrackPortfolioValue ==
    /\ bt # NotRun /\ ~bt.raised /\ bt.done < Len(TradingDates)
    /\ ~is_rebalance_date(NextDate, bt.rebalance_dates)
    /\ \E close \in ClosesOn(NextDate) :
         bt' = [bt EXCEPT !.done = @ + 1,
                          !.portfolio_values = Tracked(NextDate, close),
                          !.last = [NoDate EXCEPT !.date = NextDate, !.path = "track",
                                      !.invested_before = bt.initial_invested,
                                      !.exited_before = bt.exited]]
    /\ UNCHANGED <<bt_args, ledgerVars, classifyVars, planVars, execVars>>

\* the rest of a pass on a rebalance date, after execute_initial_investment
\* or execute_rebalance returned r
RebalancePass(path, close, recommendations, r) ==
    /\ cash' = r.ledger.cash
    /\ holdings' = r.ledger.holdings
    /\ transactions' = r.ledger.transactions
    /\ ret' = r.ledger.ret
    /\ bt' = [bt EXCEPT
                !.done = @ + 1,
                !.portfolio_values = Tracked(NextDate, close),
                !.recorded = Append(@, NextDate),
                !.trade_count = @ + r.trades,
                !.raised = r.raised,
                !.initial_invested =
                    IF r.raised THEN @
                    ELSE IF no_current_holdings(r.ledger.holdings) THEN FALSE
                    ELSE IF path = "initial" THEN r.success ELSE @,
                !.exited = @ \/ (/\ path = "rebalance"
                                  /\ is_weak_market(recommendations)
                                  /\ r.ledger.holdings = <<>>),
                !.last = [date |-> NextDate, path |-> path,
                          invested_before |-> bt.initial_invested,
                          exited_before |-> bt.exited,
                          weak |-> is_weak_market(recommendations),
                          buys |-> \E i \in 1..Len(recommendations) :
                                      recommendations[i].action = "BUY"
                                      /\ recommendations[i].symbol # engine_cash_equivalent,
                          priced |-> \A i \in 1..Len(holdings) :
                                        has_close(close, holdings[i].symbol),
                          strategy |-> r.strategy, planner |-> r.planner,
                          buy_orders |-> Len(SelectSeq(r.exec_df,
                                            LAMBDA row : row.Action = "BUY"
                                                         /\ row.Quantity > 0)),
                          buys_done |-> Len(SelectSeq(r.ledger.transactions,
                                            LAMBDA t : t.action = "BUY"))
                                        - Len(SelectSeq(transactions,
                                            LAMBDA t : t.action = "BUY")),
                          held_before |-> holdings # <<>>]]
    /\ UNCHANGED <<initial_capital, bt_args, classifyVars, planVars, execVars>>

\* one pass of the loop on a rebalance date while not invested
InitialInvestment ==
    /\ bt_args.run = "run_backtest"
    /\ ~bt.raised /\ bt.done < Len(TradingDates)
    /\ is_rebalance_date(NextDate, bt.rebalance_dates)
    /\ ~bt.initial_invested
    /\ \E close \in ClosesOn(NextDate), recommendations \in StrategyAnswers({}) :
         \E r \in execute_initial_investment(LedgerWithRet, NextDate, close, recommendations) :
            RebalancePass("initial", close, recommendations, r)

\* one pass of the loop on a rebalance date while invested
Rebalance ==
    /\ bt_args.run = "run_backtest"
    /\ ~bt.raised /\ bt.done < Len(TradingDates)
    /\ is_rebalance_date(NextDate, bt.rebalance_dates)
    /\ bt.initial_invested
    /\ \E close \in ClosesOn(NextDate),
          recommendations \in StrategyAnswers({ holdings[i].symbol : i \in 1..Len(holdings) }) :
         \E r \in execute_rebalance(LedgerWithRet, NextDate, close, recommendations) :
            RebalancePass("rebalance", close, recommendations, r)

DriverNext == TrackPortfolioValue \/ InitialInvestment \/ Rebalance

DriverSpecInit ==
    /\ DriverInit
    /\ classify_args = NotRun /\ classify_ret = NotRun
    /\ plan_args = NotRun /\ plan_ret = NotRun
    /\ exec_args = NotRun /\ exec_ret = NotRun

SpecDriver == DriverSpecInit /\ [][DriverNext]_vars

\* ============================================ weighted backtest driver
\* optimization/engines.py WeightedBacktestEngine: the loop of run_backtest
\* with the engine's own run_strategy, execute_initial_investment and
\* execute_rebalance, which plan with plan_equity_investment,
\* plan_move_to_cash_equivalent and plan_portfolio_rebalance.  The Close of
\* a symbol may change from one date to the next.
weighted_initial_capital == 5
WeightedTopN == {1, 2}
WeightedBand == {0}

\* rank(): the symbols with enough history on the date, in rank order
WeightedRankings ==
    UNION { { p \in [1..Cardinality(S) -> S] :
                \A i, j \in 1..Cardinality(S) : i # j => p[i] # p[j] }
            : S \in SUBSET SeqSet(UniverseSymbols) }

\* the order in which a set of the universe's symbols is iterated
WeightedTieOrders == { tie \in TieOrders : tie[Len(tie)] = PlanSymbols[Len(PlanSymbols)] }

\* broker.get_holdings() as the planners read it
previous_holdings_of(L) ==
    MapSeq(L.holdings, LAMBDA h : [symbol |-> h.symbol, quantity |-> h.quantity])

\* the regime and the buckets of the engine's run_strategy as a list of
\* (symbol, action), the cash equivalent standing for a weak market
weighted_recommendations(s) ==
    MapSeq(s.removed_stocks, LAMBDA sym : StrategyRec(sym, "SELL"))
      \o MapSeq(s.held_stocks, LAMBDA sym : StrategyRec(sym, "HOLD"))
      \o MapSeq(s.new_entries, LAMBDA sym : StrategyRec(sym, "BUY"))
      \o (IF s.raised \/ s.market_regime = "STRONG" THEN <<>>
          ELSE <<StrategyRec(engine_cash_equivalent, "BUY")>>)

\* plan_move_to_cash_equivalent: a SELL row for every holding other than
\* the cash equivalent that has a price, and a BUY of the cash equivalent
\* when it has a price; price_data of the backtest has no series for it
plan_move_to_cash_equivalent(previous_holdings, latest_close) ==
    LET cash_symbol_clean == replace_NS("LIQUIDCASE.NS")
        non_cash_holdings == SelectSeq(previous_holdings,
                                LAMBDA h : h.symbol # cash_symbol_clean)
        sold == SelectSeq(non_cash_holdings,
                    LAMBDA h : has_price(latest_close, h.symbol) /\ h.quantity > 0)
        total_value == SeqSum(sold, LAMBDA h : h.quantity * latest_close[h.symbol])
        sells == MapSeq(sold, LAMBDA h :
                    [Symbol |-> h.symbol, Action |-> "SELL",
                     Price |-> round2(Scaled(latest_close[h.symbol])),
                     Quantity |-> h.quantity,
                     Invested |-> round2(Scaled(h.quantity * latest_close[h.symbol]))])
        \* available_capital = total_value - total_value * 0.001
        qty == IF has_price(latest_close, cash_symbol_clean) /\ total_value > 0
               THEN (total_value * 999) \div (1000 * latest_close[cash_symbol_clean])
               ELSE 0
    IN sells \o (IF qty > 0
                 THEN <<BuyRow(cash_symbol_clean, latest_close[cash_symbol_clean], qty)>>
                 ELSE <<>>)

\* the plan handed to _execute_backtest_orders
after_plan(L, success, exec_df, date) ==
    LET r == _execute_backtest_orders(L, exec_df, date)
    IN Outcome(r.ledger, success, exec_df, r.trade_count, TRUE, TRUE, FALSE)

\* WeightedBacktestEngine.execute_initial_investment
weighted_execute_initial_investment(L, capital, date, close, s, ranked, top_n, tie) ==
    IF s.raised THEN Outcome(L, FALSE, <<>>, 0, TRUE, FALSE, TRUE)
    \* "if ranked_df.empty: return False": the weak market's empty frame
    ELSE IF s.market_regime = "WEAK" THEN Outcome(L, FALSE, <<>>, 0, TRUE, FALSE, FALSE)
    ELSE LET selected_symbols == head(MapSeq(ranked, replace_NS), top_n)
         IN after_plan(L, TRUE,
                       plan_equity_investment(selected_symbols, close, capital, tie),
                       date)

\* WeightedBacktestEngine.execute_rebalance
weighted_execute_rebalance(L, date, close, s, tie) ==
    LET previous_holdings == previous_holdings_of(L)
        held_symbols == MapSeq(previous_holdings, LAMBDA h : h.symbol)
    IN IF held_symbols = <<>> THEN Outcome(L, FALSE, <<>>, 0, FALSE, FALSE, FALSE)
       ELSE IF s.raised THEN Outcome(L, FALSE, <<>>, 0, TRUE, FALSE, TRUE)
       ELSE IF /\ s.held_stocks = <<>> /\ s.new_entries = <<>>
               /\ s.removed_stocks = held_symbols
       THEN [after_plan(L, FALSE,
                        plan_move_to_cash_equivalent(previous_holdings, close), date)
                EXCEPT !.planner = FALSE]
       ELSE IF s.new_entries = <<>> /\ s.removed_stocks = <<>>
       THEN Outcome(L, TRUE, <<>>, 0, TRUE, FALSE, FALSE)
       ELSE IF rebalance_raises(s.held_stocks, s.new_entries, s.removed_stocks,
                                previous_holdings, close, tie)
       THEN Outcome(L, FALSE, <<>>, 0, TRUE, TRUE, TRUE)
       ELSE after_plan(L, TRUE,
                       plan_portfolio_rebalance(s.held_stocks, s.new_entries,
                           s.removed_stocks, previous_holdings, close, tie),
                       date)

\* WeightedBacktestEngine(weights, ...) and the head of run_backtest
WeightedDriverInit ==
    /\ initial_capital = weighted_initial_capital
    /\ cash = initial_capital
    /\ holdings = <<>>
    /\ transactions = <<>>
    /\ ret = None
    /\ \E rebalance_frequency \in {"W", "M"}, rebalance_day \in Weekdays,
          market_days \in SUBSET (start_date..end_date),
          top_n \in WeightedTopN, band \in WeightedBand :
         /\ rebalance_frequency # "W" => rebalance_day = 0
         /\ bt_args = [run |-> "weighted_run_backtest",
                       rebalance_frequency |-> rebalance_frequency,
                       rebalance_day |-> rebalance_day,
                       market_days |-> market_days,
                       benchmark_in_price_data |-> TRUE,
                       top_n |-> top_n, band |-> band]
    /\ bt = [rebalance_dates |-> get_rebalance_dates(bt_args.rebalance_frequency,
                                     bt_args.rebalance_day, start_date, end_date),
             done |-> 0,
             initial_invested |-> FALSE,
             recorded |-> <<>>,
             portfolio_values |-> <<>>,
             trade_count |-> 0,
             raised |-> FALSE,
             exited |-> FALSE,
             last |-> NoDate]

\* one pass of the loop on a rebalance date while not invested
WeightedInitialInvestment ==
    /\ bt_args.run = "weighted_run_backtest"
    /\ ~bt.raised /\ bt.done < Len(TradingDates)
    /\ is_rebalance_date(NextDate, bt.rebalance_dates)
    /\ ~bt.initial_invested
    /\ \E close \in ClosesOn(NextDate), ranked \in WeightedRankings,
          market_is_strong \in BOOLEAN, tie \in WeightedTieOrders :
         LET s == weighted_run_strategy(close, ranked, market_is_strong, <<>>,
                                        bt_args.top_n, bt_args.band)
         IN RebalancePass("initial", close, weighted_recommendations(s),
                weighted_execute_initial_investment(LedgerWithRet, initial_capital,
                    NextDate, close, s, ranked, bt_args.top_n, tie))

\* one pass of the loop on a rebalance date while invested
WeightedRebalance ==
    /\ bt_args.run = "weighted_run_backtest"
    /\ ~bt.raised /\ bt.done < Len(TradingDates)
    /\ is_rebalance_date(NextDate, bt.rebalance_dates)
    /\ bt.initial_invested
    /\ \E close \in ClosesOn(NextDate), ranked \in WeightedRankings,
          market_is_strong \in BOOLEAN, tie \in WeightedTieOrders :
         LET s == weighted_run_strategy(close, ranked, market_is_strong,
                    MapSeq(holdings, LAMBDA h : h.symbol), bt_args.top_n, bt_args.band)
         IN RebalancePass("rebalance", close, weighted_recommendations(s),
                weighted_execute_rebalance(LedgerWithRet, NextDate, close, s, tie))

WeightedDriverNext == TrackPortfolioValue \/ WeightedInitialInvestment \/ WeightedRebalance

WeightedDriverSpecInit ==
    /\ WeightedDriverInit
    /\ classify_args = NotRun /\ classify_ret = NotRun
    /\ plan_args = NotRun /\ plan_ret = NotRun
    /\ exec_args = NotRun /\ exec_ret = NotRun

SpecWeightedDriver == WeightedDriverSpecInit /\ [][WeightedDriverNext]_vars

\* ================================================= legacy backtest loop
\* core/strategies/template/universe.py UniverseStrategy.backtest: the loop
\* over the rebalance dates with its own cash and current_holdings (a dict
\* symbol -> (qty, buy_price), here a list in insertion order).  The equity
\* curve and the printed return, figures for the report, are left out.
MaxLegacyDate == 3    \* number of rebalance dates
LegacySymbols == <<"A", "B">>
legacy_initial_capital == 2

\* Close of a row of a price frame; NoClose: the frame has no row on the date
NoClose == -1
LegacyCloses == {NoClose, 0, 1}
LegacyPriceData == [SeqSet(LegacySymbols) -> [1..MaxLegacyDate -> LegacyCloses]]

\* rank_stocks(as_of_date): the ranked symbols in rank order, empty in a
\* weak market
LegacyRankings ==
    UNION { { p \in [1..Cardinality(S) -> S] :
                \A i, j \in 1..Cardinality(S) : i # j => p[i] # p[j] }
            : S \in SUBSET SeqSet(LegacySymbols) }

\* (None, None) of get_price_on_date
NoPriceOnDate == [price |-> NoClose, date |-> 0]

\* UniverseStrategy.get_price_on_date: the Close of the date, else of the
\* nearest earlier date that has a row
get_price_on_date(price_data, symbol, date) ==
    LET rows == { d \in 1..MaxLegacyDate : price_data[symbol][d] # NoClose }
    IN IF rows = {} THEN NoPriceOnDate
       ELSE IF date \in rows THEN [price |-> price_data[symbol][date], date |-> date]
       ELSE IF { d \in rows : d < date } = {} THEN NoPriceOnDate
       ELSE LET actual_date == CHOOSE d \in rows : d < date /\ \A e \in rows : e < date => e <= d
            IN [price |-> price_data[symbol][actual_date], date |-> actual_date]

\* "if sell_price:" / "if price:": neither None nor 0
price_is_set(p) == p.price # NoClose /\ p.price # 0

LogRow(date, symbol, action, qty, price) ==
    [Date |-> date, Symbol |-> symbol, Action |-> action, Qty |-> qty, Price |-> price]

\* the rankings.empty branch: the holdings that have a price are valued,
\* everything is liquidated and the value carried forward as cash
legacy_go_to_cash(B, price_data, date) ==
    LET priced == SelectSeq(B.current_holdings,
                     LAMBDA h : price_is_set(get_price_on_date(price_data, h.symbol, date)))
        equity_value == SeqSum(priced,
                           LAMBDA h : h.qty * get_price_on_date(price_data, h.symbol, date).price)
    IN [B EXCEPT !.current_holdings = <<>>,
                 !.cash = equity_value + B.cash,
                 !.rebalance_log = Append(@, LogRow(date, "CASH", "HOLD", 0, 0))]

\* top_symbols of one rebalance date
legacy_top_symbols(B, rankings, top_n, band_threshold) ==
    IF band_threshold > 0
    THEN LET max_rank == top_n + band_threshold
             held_stocks == MapSeq(SelectSeq(B.current_holdings,
                               LAMBDA h : /\ Contains(rankings, h.symbol)
                                          /\ IndexOf(rankings, h.symbol) <= max_rank),
                               LAMBDA h : h.symbol)
             slots_left == top_n - Len(held_stocks)
             free == SelectSeq(rankings, LAMBDA sym : ~Contains(held_stocks, sym))
             \* DataFrame.head(n): the first n rows, all but the last -n for n < 0
         IN held_stocks \o py_slice_to(free, slots_left)
    ELSE head(rankings, top_n)

\* "Sell stocks that are no longer in top N", from holding i on
RECURSIVE legacy_sell_loop(_, _, _, _, _)
legacy_sell_loop(B, held, i, top_symbols, prices) ==
    IF i > Len(held) THEN B
    ELSE LET h == held[i]
             sell_price == prices[h.symbol]
         IN IF Contains(top_symbols, h.symbol)
            THEN legacy_sell_loop(B, held, i + 1, top_symbols, prices)
            ELSE LET sold == IF price_is_set(sell_price)
                             THEN [B EXCEPT !.cash = @ + h.qty * sell_price.price,
                                            !.rebalance_log =
                                                Append(@, LogRow(sell_price.date, h.symbol,
                                                                 "SELL", h.qty, sell_price.price))]
                             ELSE B
                 IN legacy_sell_loop(
                        \* del current_holdings[symbol]
                        [sold EXCEPT !.current_holdings =
                                        SelectSeq(@, LAMBDA x : x.symbol # h.symbol)],
                        held, i + 1, top_symbols, prices)

\* "Buy new stocks with available cash", from top symbol i on;
\* capital_per_stock = cpnum / cpden
RECURSIVE legacy_buy_loop(_, _, _, _, _, _)
legacy_buy_loop(B, top_symbols, i, prices, cpnum, cpden) ==
    IF i > Len(top_symbols) THEN B
    ELSE LET symbol == top_symbols[i]
             p == prices[symbol]
         IN IF \/ \E k \in 1..Len(B.current_holdings) : B.current_holdings[k].symbol = symbol
               \/ p.price = NoClose \/ p.price = 0
            THEN legacy_buy_loop(B, top_symbols, i + 1, prices, cpnum, cpden)
            ELSE LET qty == cpnum \div (cpden * p.price)
                 IN IF qty > 0
                    THEN legacy_buy_loop(
                            [B EXCEPT !.current_holdings =
                                          Append(@, [symbol |-> symbol, qty |-> qty,
                                                     buy_price |-> p.price]),
                                      !.cash = @ - qty * p.price,
                                      !.rebalance_log =
                                          Append(@, LogRow(p.date, symbol, "BUY", qty, p.price))],
                            top_symbols, i + 1, prices, cpnum, cpden)
                    ELSE legacy_buy_loop(B, top_symbols, i + 1, prices, cpnum, cpden)

\* the body of the loop of backtest for one rebalance date
legacy_rebalance(B, price_data, date, rankings, top_n, band_threshold) ==
    IF rankings = <<>> THEN legacy_go_to_cash(B, price_data, date)
    ELSE LET top_symbols == legacy_top_symbols(B, rankings, top_n, band_threshold)
             prices == [sym \in SeqSet(LegacySymbols) |->
                           get_price_on_date(price_data, sym, date)]
             sold == legacy_sell_loop(B, B.current_holdings, 1, top_symbols, prices)
             slots_available == top_n - Len(sold.current_holdings)
         IN IF slots_available > 0
            THEN legacy_buy_loop(sold, top_symbols, 1, prices, sold.cash, slots_available)
            ELSE legacy_buy_loop(sold, top_symbols, 1, prices, 0, 1)

\* UniverseStrategy(config) and the head of backtest
LegacyInit ==
    /\ \E price_data \in LegacyPriceData, top_n \in 1..MaxTopN, band_threshold \in {0, 1} :
         bt_args = [run |-> "legacy_backtest", price_data |-> price_data,
                    top_n |-> top_n, band_threshold |-> band_threshold]
    /\ bt = [done |-> 0, current_holdings |-> <<>>, cash |-> legacy_initial_capital,
             rebalance_log |-> <<>>,
             before |-> [current_holdings |-> <<>>, cash |-> legacy_initial_capital]]

\* one pass of the loop; bt.before keeps the holdings and the cash the pass
\* started from
LegacyRebalance ==
    /\ bt_args.run = "legacy_backtest"
    /\ bt.done < MaxLegacyDate
    /\ \E rankings \in LegacyRankings :
         LET B == legacy_rebalance([current_holdings |-> bt.current_holdings,
                                    cash |-> bt.cash, rebalance_log |-> bt.rebalance_log],
                                   bt_args.price_data, bt.done + 1, rankings,
                                   bt_args.top_n, bt_args.band_threshold)
         IN bt' = [done |-> bt.done + 1, current_holdings |-> B.current_holdings,
                   cash |-> B.cash, rebalance_log |-> B.rebalance_log,
                   before |-> [current_holdings |-> bt.current_holdings, cash |-> bt.cash]]
    /\ UNCHANGED <<bt_args, ledgerVars, classifyVars, planVars, execVars>>

LegacyNext == LegacyRebalance

LegacySpecInit ==
    /\ LegacyInit
    /\ initial_capital = 0 /\ cash = 0 /\ holdings = <<>> /\ transactions = <<>>
    /\ ret = None
    /\ classify_args = NotRun /\ classify_ret = NotRun
    /\ plan_args = NotRun /\ plan_ret = NotRun
    /\ exec_args = NotRun /\ exec_ret = NotRun

SpecLegacy == LegacySpecInit /\ [][LegacyNext]_vars

\* ============================== the allocation loop, one pass at a time
\* _maximize_capital_deployment (planner.py 220-321) followed statement by
\* statement.  The function takes any float as a price, and rounds what it
\* books: amounts here are in mills (0.001 rupee), a tenth of a paisa, so
\* that round(x, 2) is not the identity.  Float error is not modelled.
MillsPerPaisa == 10
MaxDeployCapital == 24   \* largest additional_capital, in mills
MaxPasses == 5           \* most passes of the while loop followed

\* round(x, 2) of an amount in mills: to whole paise, a half up
round2_mills(x) == ((2 * x + MillsPerPaisa) \div (2 * MillsPerPaisa)) * MillsPerPaisa

DeployPrices == {3, 4, 10, 14}
DeployValues == {0, 10}
DeploySymbols == <<"A", "B">>

MillsRow(symbol, price, quantity) ==
    [Symbol |-> symbol, Action |-> "BUY", Price |-> round2_mills(price),
     Quantity |-> quantity, Invested |-> round2_mills(quantity * price)]

\* the loop of _fill_underweight_gaps_only; the target is tnum / tden
RECURSIVE fill_gaps_mills(_, _, _, _, _, _)
fill_gaps_mills(rows, i, remaining_capital, tnum, tden, execution_data) ==
    IF i > Len(rows) \/ remaining_capital <= 0 THEN execution_data
    ELSE
        LET price == rows[i].price
            max_shares == remaining_capital \div price
            shares_needed == (tnum - rows[i].current_value * tden) \div (tden * price)
            to_buy == Min(max_shares, shares_needed)
        IN IF to_buy > 0
           THEN fill_gaps_mills(rows, i + 1, remaining_capital - to_buy * price,
                                tnum, tden,
                                Append(execution_data,
                                       MillsRow(rows[i].symbol, price, to_buy)))
           ELSE fill_gaps_mills(rows, i + 1, remaining_capital, tnum, tden, execution_data)

underweight_exec_of(df_holdings, additional_capital, tie) ==
    LET tnum == SeqSum(df_holdings, LAMBDA r : r.current_value) + additional_capital
        tden == Len(df_holdings)
        underweight == SelectSeq(df_holdings, LAMBDA r : r.current_value * tden < tnum)
    IN fill_gaps_mills(sorted_by_gap(underweight, tie), 1, additional_capital,
                       tnum, tden, <<>>)

\* the body of the for loop over df_holdings (planner.py 278-297)
round_orders_mills(df_holdings, remaining_capital) ==
    LET num_stocks == Len(df_holdings)
        qty(price) ==
            \* per_stock_allocation >= price
            IF remaining_capital >= num_stocks * price
            THEN Max(1, remaining_capital \div (num_stocks * price))
            ELSE 0
        affordable == SelectSeq(df_holdings,
                          LAMBDA r : qty(r.price) > 0
                                     /\ qty(r.price) * r.price <= remaining_capital)
    IN MapSeq(affordable, LAMBDA r : MillsRow(r.symbol, r.price, qty(r.price)))

\* remaining_capital -= sum(order["Invested"] for order in round_orders)
remaining_after(remaining_capital, round_orders) ==
    remaining_capital - InvestedSum(round_orders)

NoPass == [before |-> 0, round_orders |-> <<>>, taken |-> FALSE]

DeployHoldings ==
    UNION { { [i \in 1..n |-> [symbol |-> DeploySymbols[i], price |-> p[i],
                               current_value |-> v[i]]] :
              p \in [1..n -> DeployPrices], v \in [1..n -> DeployValues] } :
            n \in 1..Len(DeploySymbols) }

DeployInit ==
    /\ plan_args \in [run : {"_maximize_capital_deployment"},
                      df_holdings : DeployHoldings,
                      additional_capital : 0..MaxDeployCapital,
                      tie : Perms(SeqSet(DeploySymbols))]
    /\ plan_ret = [pc |-> "step1", remaining_capital |-> plan_args.additional_capital,
                   execution_data |-> <<>>, passes |-> 0, last |-> NoPass,
                   plan |-> <<>>]

\* Step 1 (planner.py 255-263)
DeployFillGaps ==
    /\ plan_args.run = "_maximize_capital_deployment"
    /\ plan_ret.pc = "step1"
    /\ LET underweight_exec == underweight_exec_of(plan_args.df_holdings,
                                   plan_ret.remaining_capital, plan_args.tie)
       IN plan_ret' = [plan_ret EXCEPT
              !.pc = "while",
              !.execution_data = underweight_exec,
              !.remaining_capital = remaining_after(@, underweight_exec)]
    /\ UNCHANGED <<plan_args, ledgerVars, classifyVars, execVars, driverVars>>

\* one pass of the while loop (planner.py 269-309): the orders of the round,
\* then the break when none was made, else the booking and the second test
DeployPass ==
    /\ plan_args.run = "_maximize_capital_deployment"
    /\ plan_ret.pc = "while"
    /\ plan_ret.remaining_capital >= MinPrice(plan_args.df_holdings)
    /\ plan_ret.passes < MaxPasses
    /\ LET round_orders == round_orders_mills(plan_args.df_holdings,
                                              plan_ret.remaining_capital)
           left == remaining_after(plan_ret.remaining_capital, round_orders)
       IN plan_ret' =
            IF round_orders = <<>>
            THEN [plan_ret EXCEPT
                     !.pc = "after", !.passes = @ + 1,
                     !.last = [before |-> plan_ret.remaining_capital,
                               round_orders |-> <<>>, taken |-> TRUE]]
            ELSE [plan_ret EXCEPT
                     !.pc = IF left < MinPrice(plan_args.df_holdings)
                            THEN "after" ELSE "while",
                     !.passes = @ + 1,
                     !.execution_data = @ \o round_orders,
                     !.remaining_capital = left,
                     !.last = [before |-> plan_ret.remaining_capital,
                               round_orders |-> round_orders, taken |-> TRUE]]
    /\ UNCHANGED <<plan_args, ledgerVars, classifyVars, execVars, driverVars>>

\* the while test fails (planner.py 269)
DeployLeave ==
    /\ plan_args.run = "_maximize_capital_deployment"
    /\ plan_ret.pc = "while"
    /\ plan_ret.remaining_capital < MinPrice(plan_args.df_holdings)
    /\ plan_ret' = [plan_ret EXCEPT !.pc = "after"]
    /\ UNCHANGED <<plan_args, ledgerVars, classifyVars, execVars, driverVars>>

\* "Consolidate orders for same symbol" and return (planner.py 311-321)
DeployReturn ==
    /\ plan_args.run = "_maximize_capital_deployment"
    /\ plan_ret.pc = "after"
    /\ plan_ret' = [plan_ret EXCEPT !.pc = "returned",
                                    !.plan = consolidate(plan_ret.execution_data)]
    /\ UNCHANGED <<plan_args, ledgerVars, classifyVars, execVars, driverVars>>

DeployNext == DeployFillGaps \/ DeployPass \/ DeployLeave \/ DeployReturn

DeploySpecInit ==
    /\ DeployInit
    /\ initial_capital = 0 /\ cash = 0 /\ holdings = <<>> /\ transactions = <<>>
    /\ ret = None
    /\ classify_args = NotRun /\ classify_ret = NotRun
    /\ exec_args = NotRun /\ exec_ret = NotRun
    /\ bt_args = NotRun /\ bt = NotRun

SpecDeploy == DeploySpecInit /\ [][DeployNext]_vars

\* the interpreter runs the function to its return unless the loop keeps it
SpecDeployFair == DeploySpecInit /\ [][DeployNext]_vars /\ WF_vars(DeployNext)

\* ==================================================== capital withdrawal
\* run_withdraw (live.py 106-171) and plan_capital_withdrawal (planner.py
\* 754-875), in whole paise.  An argument left out is None, one given is
\* Given(v).
MaxWithdrawal == 6       \* largest amount asked for

Given(v) == <<v>>
WithdrawAmounts == {None} \cup { Given(a) : a \in (-1)..MaxWithdrawal }
WithdrawPercentages == {None} \cup { Given(p) : p \in {0, 50, 100, 150} }

\* int(x) of the quotient num / den, den > 0: towards zero
py_int(num, den) == IF num >= 0 THEN num \div den ELSE -((-num) \div den)

\* sum(h["quantity"] * latest_close.get(h["symbol"], 0) ...)
total_portfolio_value(previous_holdings, latest_close) ==
    SeqSum(previous_holdings,
           LAMBDA h : h.quantity * (IF h.symbol \in DOMAIN latest_close
                                    THEN latest_close[h.symbol] ELSE 0))

SellRow(symbol, price, quantity) ==
    [Symbol |-> symbol, Action |-> "SELL", Price |-> round2(Scaled(price)),
     Quantity |-> quantity, Invested |-> round2(Scaled(quantity * price))]

\* the rows of a withdrawal in the ratio num / den (planner.py 849-873);
\* full sells every priced holding whole (827-846)
withdrawal_rows(previous_holdings, latest_close, full, num, den) ==
    LET sell_qty(h) == IF full THEN h.quantity ELSE py_int(h.quantity * num, den)
        sold == SelectSeq(previous_holdings,
                    LAMBDA h : /\ has_price(latest_close, h.symbol)
                               /\ h.quantity > 0
                               /\ sell_qty(h) > 0)
    IN MapSeq(sold, LAMBDA h : SellRow(h.symbol, latest_close[h.symbol], sell_qty(h)))

\* plan_capital_withdrawal (Rank and Weight % columns are left out); the
\* division by a portfolio value of 0 raises ZeroDivisionError
plan_capital_withdrawal(previous_holdings, latest_close, amount, percentage, full) ==
    LET total == total_portfolio_value(previous_holdings, latest_close)
    IN IF previous_holdings = <<>> THEN [raised |-> FALSE, plan |-> EmptyPlan]
       ELSE IF full
       THEN [raised |-> FALSE,
             plan |-> withdrawal_rows(previous_holdings, latest_close, TRUE, 1, 1)]
       ELSE IF percentage # None
       THEN IF total = 0 THEN [raised |-> TRUE, plan |-> EmptyPlan]
            ELSE [raised |-> FALSE,
                  plan |-> withdrawal_rows(previous_holdings, latest_close, FALSE,
                                           total * percentage[1], 100 * total)]
       ELSE IF amount # None
       THEN IF total = 0 THEN [raised |-> TRUE, plan |-> EmptyPlan]
            ELSE [raised |-> FALSE,
                  plan |-> withdrawal_rows(previous_holdings, latest_close, FALSE,
                                           amount[1], total)]
       ELSE [raised |-> FALSE, plan |-> EmptyPlan]

\* "Input validation" of run_withdraw (live.py 134-140)
withdraw_input_invalid(amount, percentage, full) ==
    \/ ~full /\ amount = None /\ percentage = None
    \/ percentage # None /\ (percentage[1] <= 0 \/ percentage[1] > 100)

WithdrawInit ==
    /\ \E S \in SUBSET PlanSymbolSet :
         \E latest_close \in LatestCloses(S), qty \in [S -> HeldQuantities] :
            plan_args \in [run : {"run_withdraw"},
                           previous_holdings : {HoldingsOf(S, qty)},
                           latest_close : {latest_close},
                           amount : WithdrawAmounts,
                           percentage : WithdrawPercentages,
                           full : BOOLEAN]
    /\ plan_ret = NotRun

\* run_withdraw up to the plan it hands to _execute_orders
RunWithdraw ==
    /\ plan_args.run = "run_withdraw"
    /\ plan_ret = NotRun
    /\ plan_ret' =
         IF withdraw_input_invalid(plan_args.amount, plan_args.percentage,
                                   plan_args.full)
         THEN [run |-> plan_args.run, outcome |-> "invalid", plan |-> EmptyPlan]
         ELSE IF plan_args.previous_holdings = <<>>
         THEN [run |-> plan_args.run, outcome |-> "no holdings", plan |-> EmptyPlan]
         ELSE LET exec_df == plan_capital_withdrawal(plan_args.previous_holdings,
                                 plan_args.latest_close, plan_args.amount,
                                 plan_args.percentage, plan_args.full)
              IN IF exec_df.raised
                 THEN [run |-> plan_args.run, outcome |-> "raised", plan |-> EmptyPlan]
                 ELSE IF exec_df.plan = EmptyPlan
                 THEN [run |-> plan_args.run, outcome |-> "no plan", plan |-> EmptyPlan]
                 ELSE [run |-> plan_args.run, outcome |-> "planned",
                       plan |-> exec_df.plan]
    /\ UNCHANGED <<plan_args, ledgerVars, classifyVars, execVars, driverVars>>

WithdrawNext == RunWithdraw

WithdrawSpecInit ==
    /\ WithdrawInit
    /\ initial_capital = 0 /\ cash = 0 /\ holdings = <<>> /\ transactions = <<>>
    /\ ret = None
    /\ classify_args = NotRun /\ classify_ret = NotRun
    /\ exec_args = NotRun /\ exec_ret = NotRun
    /\ bt_args = NotRun /\ bt = NotRun

SpecWithdraw == WithdrawSpecInit /\ [][WithdrawNext]_vars

\* ================================================================ claims
\* ---------------------------------------------------------------- ledger
\* C1: the ledger cash is never negative, whatever orders were placed.
C1_CashNeverNegative == cash >= 0

\* a BUY that spent the whole cash has been executed
C1_Witness ==
    /\ initial_capital > 0
    /\ cash = 0
    /\ Len(transactions) > 0
    /\ transactions[Len(transactions)].action = "BUY"

\* --------------------------------------------------------------- planner
BuyRows(plan) == SelectSeq(plan, LAMBDA r : r.Action = "BUY")
Planned(what) == plan_ret.run = what /\ ~plan_ret.raised

\* the capital the planner that ran may spend on buying, scaled: capital
\* less the cost reserve for plan_equity_investment and
\* plan_capital_addition, the sale proceeds less the reserve on both legs
\* for plan_portfolio_rebalance
UsableCapital ==
    IF plan_args.run = "plan_portfolio_rebalance"
    THEN freed_capital_of(keep_rows(prev_df_of(plan_args.previous_holdings,
                                               plan_args.latest_close),
                                    plan_args.removed_stocks))
    ELSE plan_args.capital * (CostDen - CostNum)

UnspentRemainder == UsableCapital - Scaled(InvestedSum(BuyRows(plan_ret.plan)))

\* C2: in every plan returned by plan_portfolio_rebalance,
\* plan_equity_investment and plan_capital_addition the sum of Invested over
\* the BUY rows is at most the capital usable for buying, so the unspent
\* remainder is not negative.
C2_NoPlannerOverspends ==
    \A what \in {"plan_portfolio_rebalance", "plan_equity_investment",
                 "plan_capital_addition"} :
        Planned(what) => UnspentRemainder >= 0

\* a top-up where an underweight holding's gap asks for more shares than the
\* capital affords, and a share of another holding was bought
C2_Witness ==
    /\ Planned("plan_capital_addition")
    /\ BuyRows(plan_ret.plan) # <<>>
    /\ UnspentRemainder < Scaled(MaxPlanPrice)
    /\ \E i \in 1..Len(plan_args.previous_holdings) :
         LET h == plan_args.previous_holdings[i]
         IN /\ has_price(plan_args.latest_close, h.symbol)
            /\ Scaled(plan_args.latest_close[h.symbol]) > UsableCapital
            /\ h.symbol \notin RowSymbols(plan_ret.plan)

Bought(symbol) ==
    SeqSum(transactions,
           LAMBDA t : IF t.symbol = symbol /\ t.action = "BUY" THEN t.quantity ELSE 0)
Sold(symbol) ==
    SeqSum(transactions,
           LAMBDA t : IF t.symbol = symbol /\ t.action = "SELL" THEN t.quantity ELSE 0)
Position(symbol) ==
    IF find_holding(holdings, symbol) = 0 THEN 0
    ELSE holdings[find_holding(holdings, symbol)].quantity

\* C3: no position quantity is negative and, per symbol, the quantity sold
\* never exceeds the quantity bought (the position is their difference); a
\* SELL of more than the position, or of a symbol not held, returns None.
C3_NeverOversold ==
    /\ \A i \in 1..Len(holdings) : holdings[i].quantity >= 0
    /\ \A symbol \in LedgerSymbols :
         /\ Sold(symbol) <= Bought(symbol)
         /\ Position(symbol) = Bought(symbol) - Sold(symbol)
         /\ \A quantity \in Quantities, price \in OrderPrices, date \in Dates :
              quantity > Position(symbol) =>
                place_market_order(Ledger, symbol, quantity, "SELL", price, date).ret = None

\* a position was sold in part, and the last call (a further order) was rejected
C3_Witness ==
    /\ \E symbol \in LedgerSymbols : Sold(symbol) > 0 /\ Position(symbol) > 0
    /\ ret = None

\* the conditions under which place_market_order is said to reject
ShouldReject(symbol, quantity, transaction_type, price) ==
    \/ quantity <= 0
    \/ transaction_type = "BUY" /\ quantity * price > cash
    \/ transaction_type = "SELL" /\ quantity > Position(symbol)

\* C4: in every reachable ledger state an order that meets a rejection
\* condition returns None and leaves cash, holdings and transactions as
\* they were; and no order that returns None changes any of them.
C4_RejectedOrderAtomic ==
    \A symbol \in LedgerSymbols, quantity \in Quantities,
       transaction_type \in TransactionTypes, price \in OrderPrices, date \in Dates :
        LET r == place_market_order(Ledger, symbol, quantity, transaction_type, price, date)
        IN /\ ShouldReject(symbol, quantity, transaction_type, price) => r.ret = None
           /\ r.ret = None =>
                /\ r.cash = cash
                /\ r.holdings = holdings
                /\ r.transactions = transactions

\* after two executed orders the last call was rejected
C4_Witness ==
    /\ ret = None
    /\ Len(transactions) >= 2
    /\ holdings # <<>>

\* -------------------------------------------------------------- executor
Executed == exec_ret.run # "none"
\* the transactions the executor's orders appended to the ledger
Appended == SubSeq(transactions, exec_args.before + 1, Len(transactions))
RowsOf(action) == SelectSeq(exec_args.exec_df,
                            LAMBDA row : row.Action = action /\ row.Quantity > 0)

\* C5: in the backtest executor and in the live executors, no BUY order is
\* submitted to the broker before a SELL order of the same plan: once a BUY
\* has been submitted every SELL row of the plan has been, the submitted
\* calls being the SELL rows followed by BUY rows; HOLD rows are never
\* submitted; and the backtest ledger records its trades in that order.
C5_SellsBeforeBuys ==
    Executed =>
        LET sub == exec_ret.submitted IN
        /\ \A i, j \in 1..Len(sub) :
             sub[i].transaction_type = "BUY" /\ sub[j].transaction_type = "SELL" => j < i
        /\ \A i \in 1..Len(sub) : sub[i].transaction_type # "HOLD"
        /\ (\E i \in 1..Len(sub) : sub[i].transaction_type = "BUY") =>
              SubSeq(sub, 1, Len(RowsOf("SELL"))) = MapSeq(RowsOf("SELL"), BrokerCall)
        /\ exec_ret.run = "_execute_backtest_orders" =>
              \A i, j \in 1..Len(Appended) :
                 Appended[i].action = "BUY" /\ Appended[j].action = "SELL" => j < i

\* a backtest plan that lists a BUY first, then a HOLD, then a SELL: the
\* SELL was executed first and paid for the BUY
C5_Witness ==
    /\ exec_ret.run = "_execute_backtest_orders"
    /\ Len(exec_args.exec_df) = 3
    /\ exec_args.exec_df[1].Action = "BUY"
    /\ exec_args.exec_df[2].Action = "HOLD" /\ exec_args.exec_df[2].Quantity > 0
    /\ exec_args.exec_df[3].Action = "SELL"
    /\ Len(Appended) = 2
    /\ Appended[1].action = "SELL" /\ Appended[1].cash_after = Appended[2].quantity * Appended[2].price
    /\ Appended[2].action = "BUY" /\ cash = 0
    /\ exec_ret.trade_count = 2

\* ------------------------------------------------------------ classifier
Args == classify_args
Ret == classify_ret
Returned(what) == Ret.run = what /\ ~Ret.raised
CashSymbol == replace_NS(cash_equivalent)
\* position of a bare symbol in the ranking rank() returned, 0 if absent
RankOf(sym) == IndexOf(MapSeq(Args.ranked, replace_NS), sym)
InBand(sym) == RankOf(sym) # 0 /\ RankOf(sym) <= Args.top_n + Args.band

\* C6: held, new_entries and removed returned by run_strategy are pairwise
\* disjoint.
C6_BucketsDisjoint ==
    Returned("run_strategy") =>
        /\ SeqSet(Ret.held_stocks) \cap SeqSet(Ret.new_entries) = {}
        /\ SeqSet(Ret.held_stocks) \cap SeqSet(Ret.removed_stocks) = {}
        /\ SeqSet(Ret.new_entries) \cap SeqSet(Ret.removed_stocks) = {}

\* C7 as stated: in a strong market a held symbol is in held iff it is
\* ranked within top_n + band, and in removed otherwise.
C7_HeldIffInBand ==
    (Returned("run_strategy") /\ Args.market_is_strong) =>
        \A sym \in SeqSet(Args.held_symbols) :
            /\ sym \in SeqSet(Ret.held_stocks) <=> InBand(sym)
            /\ sym \in SeqSet(Ret.removed_stocks) <=> ~InBand(sym)

\* C7 amended: that holds of every held symbol other than the cash
\* equivalent, which run_strategy always places in removed; the weighted
\* engine's run_strategy treats every symbol alike.
C7_HeldIffInBandExceptCash ==
    /\ (Returned("run_strategy") /\ Args.market_is_strong) =>
        \A sym \in SeqSet(Args.held_symbols) :
            IF sym = CashSymbol
            THEN sym \in SeqSet(Ret.removed_stocks) /\ sym \notin SeqSet(Ret.held_stocks)
            ELSE /\ sym \in SeqSet(Ret.held_stocks) <=> InBand(sym)
                 /\ sym \in SeqSet(Ret.removed_stocks) <=> ~InBand(sym)
    /\ (Returned("weighted") /\ Args.market_is_strong) =>
        \A sym \in SeqSet(Args.held_symbols) :
            /\ sym \in SeqSet(Ret.held_stocks) <=> InBand(sym)
            /\ sym \in SeqSet(Ret.removed_stocks) <=> ~InBand(sym)

\* one held symbol is kept by the band alone (ranked below top_n), one is
\* ranked beyond the band and removed, one is unranked and removed
C7_Witness ==
    /\ Returned("run_strategy") /\ Args.market_is_strong
    /\ \E sym \in SeqSet(Ret.held_stocks) : RankOf(sym) > Args.top_n
    /\ \E sym \in SeqSet(Ret.removed_stocks) : RankOf(sym) > Args.top_n + Args.band
    /\ \E sym \in SeqSet(Ret.removed_stocks) : RankOf(sym) = 0

\* the first n symbols of the ranking that are not in held, in rank order
FirstNotHeld(n) ==
    head(SelectSeq(MapSeq(Args.ranked, replace_NS),
                   LAMBDA s : s \notin SeqSet(Ret.held_stocks)),
         Max(0, n))

\* C8: the candidate new entries are the first top_n - |held| ranked
\* symbols not in held; there are at most max(0, top_n - |held|) of them.
C8_CandidatesAreFirstFree ==
    ((Returned("run_strategy") \/ Returned("weighted")) /\ Args.market_is_strong) =>
        /\ Ret.raw_new_entries = FirstNotHeld(Args.top_n - Len(Ret.held_stocks))
        /\ Len(Ret.raw_new_entries) <= Max(0, Args.top_n - Len(Ret.held_stocks))

\* C9 as stated: in a weak market removed is all that is held; held and
\* new entries are empty.
C9_WeakSellsAll ==
    (Returned("run_strategy") /\ ~Args.market_is_strong) =>
        /\ Ret.removed_stocks = Args.held_symbols
        /\ Ret.held_stocks = <<>>
        /\ Ret.new_entries = <<>>

\* C9 amended: unless the only holding is the cash equivalent, in which
\* case removed is empty as well; the weighted engine's run_strategy has no
\* such exception.
C9_WeakSellsAllUnlessInCash ==
    /\ (Returned("run_strategy") /\ ~Args.market_is_strong) =>
        /\ Ret.removed_stocks =
             IF Args.held_symbols = <<CashSymbol>> THEN <<>> ELSE Args.held_symbols
        /\ Ret.held_stocks = <<>>
        /\ Ret.new_entries = <<>>
    /\ (Returned("weighted") /\ ~Args.market_is_strong) =>
        /\ Ret.removed_stocks = Args.held_symbols
        /\ Ret.held_stocks = <<>>
        /\ Ret.new_entries = <<>>

\* weak market, the cash equivalent held beside a stock: both are removed
C9_Witness ==
    /\ Returned("run_strategy") /\ ~Args.market_is_strong
    /\ Len(Args.held_symbols) >= 2
    /\ CashSymbol \in SeqSet(Ret.removed_stocks)

\* single-day return on the rebalance date above 15 %, from the frame
ExceedsJump(sym) ==
    /\ with_NS(sym) \in DOMAIN Args.price_data
    /\ LET df == Args.price_data[with_NS(sym)]
       IN df.has_date /\ df.rows >= 2
          /\ 100 * (df.curr_close - df.prev_close) > 15 * df.prev_close

\* C10: new_entries is the raw candidate list, in rank order, without the
\* candidates whose single-day return exceeds 15 %; nothing is substituted.
C10_JumpFilterDrops ==
    (Returned("run_strategy") /\ Args.market_is_strong) =>
        /\ Ret.new_entries = SelectSeq(Ret.raw_new_entries, LAMBDA s : ~ExceedsJump(s))
        /\ SeqSet(Ret.new_entries) \subseteq SeqSet(Ret.raw_new_entries)
        /\ Len(Ret.new_entries) <= Len(Ret.raw_new_entries)

\* two raw candidates, the better-ranked one jumped and was dropped, the
\* other rose by exactly 15 % and was kept
C10_Witness ==
    /\ Returned("run_strategy") /\ Args.market_is_strong
    /\ Len(Ret.raw_new_entries) = 2
    /\ Len(Ret.new_entries) = 1
    /\ ExceedsJump(Ret.raw_new_entries[1])
    /\ Ret.new_entries[1] = Ret.raw_new_entries[2]
    /\ Args.price_data[with_NS(Ret.new_entries[1])].curr_close = 115

\* ------------------------------------------------------ planner, continued
\* the stocks handed to _maximize_capital_deployment by the planner that
\* ran: the purchasable symbols of plan_equity_investment, the priced
\* holdings of plan_capital_addition
DeployedStocks ==
    IF plan_args.run = "plan_equity_investment"
    THEN { sym \in SeqSet(plan_args.symbols) :
              /\ has_price(plan_args.latest_close, sym)
              /\ UsableCapital >= Len(plan_args.symbols) * Scaled(plan_args.latest_close[sym]) }
    ELSE { plan_args.previous_holdings[i].symbol : i \in 1..Len(plan_args.previous_holdings) }
            \cap { sym \in PlanSymbolSet : has_price(plan_args.latest_close, sym) }

\* C11: when the iterative deployment of plan_equity_investment or
\* plan_capital_addition returns, the capital left is smaller than the price
\* of every stock of the portfolio it deployed into.
C11_NothingAffordableLeft ==
    (Planned("plan_equity_investment") \/ Planned("plan_capital_addition")) =>
        \A sym \in DeployedStocks :
            UnspentRemainder < Scaled(plan_args.latest_close[sym])

\* invested value of a symbol over the non-SELL rows of the plan
InvestedIn(sym) ==
    InvestedSum(SelectSeq(plan_ret.plan, LAMBDA r : r.Symbol = sym /\ r.Action # "SELL"))
NonSellSymbols ==
    { plan_ret.plan[i].Symbol : i \in { j \in 1..Len(plan_ret.plan) :
                                          plan_ret.plan[j].Action # "SELL" } }
PlanPricesUsed == { plan_ret.plan[i].Price : i \in 1..Len(plan_ret.plan) }

\* C12: in every plan of plan_equity_investment and plan_portfolio_rebalance
\* the invested values of any two non-SELL symbols differ by less than the
\* price of the most expensive symbol of the plan.
C12_WeightsConverge ==
    (Planned("plan_equity_investment") \/ Planned("plan_portfolio_rebalance")) =>
        \A a, b \in NonSellSymbols :
            \E price \in PlanPricesUsed : InvestedIn(a) - InvestedIn(b) < price
\* the stocks of the intended final portfolio that end with no share: a
\* symbol to buy, or a new entry, without a BUY row (a held stock keeps
\* its shares)
LeftWithoutShares ==
    IF plan_args.run = "plan_equity_investment"
    THEN SeqSet(plan_args.symbols) \ RowSymbols(BuyRows(plan_ret.plan))
    ELSE SeqSet(plan_args.new_entries) \ RowSymbols(BuyRows(plan_ret.plan))

\* C13: when a stock of the intended final portfolio would end with zero
\* shares, plan_equity_investment and plan_portfolio_rebalance return an
\* empty plan; and no BUY row has quantity 0.
C13_InsufficiencyGuard ==
    (Planned("plan_equity_investment") \/ Planned("plan_portfolio_rebalance")) =>
        /\ LeftWithoutShares # {} => plan_ret.plan = EmptyPlan
        /\ \A i \in 1..Len(plan_ret.plan) :
              plan_ret.plan[i].Action = "BUY" => plan_ret.plan[i].Quantity > 0

\* C14: plan_portfolio_rebalance called with a non-empty removed bucket
\* and an empty new bucket raises and returns no plan.
C14_RemovedWithoutNewRaises ==
    (/\ plan_ret # NotRun
     /\ plan_ret.run = "plan_portfolio_rebalance"
     /\ plan_args.removed_stocks # <<>>
     /\ plan_args.new_entries = <<>>) =>
        plan_ret.raised /\ plan_ret.plan = EmptyPlan

\* ----------------------------------------------------- ledger, continued
\* the shares of sym in a holdings list
HeldQuantity(hs, sym) ==
    SeqSum(hs, LAMBDA h : IF h.symbol = sym THEN h.quantity ELSE 0)

\* Close prices of one date for every ledger symbol
LedgerPriceData == [{ with_NS(sym) : sym \in LedgerSymbols } -> OrderPrices]

SameValue(v, w) == v.num * w.den = w.num * v.den

\* C15: a successful BUY or SELL of quantity q at price p changes cash by
\* exactly q * p (minus for BUY, plus for SELL) and only the traded symbol's
\* quantity, by exactly q; the portfolio value, with the traded symbol
\* valued at p and the others at any fixed prices, is the same before and
\* after.
C15_OrdersConserveValue ==
    \A symbol \in LedgerSymbols, quantity \in Quantities,
       transaction_type \in {"BUY", "SELL"}, price \in OrderPrices, date \in Dates :
        LET r == place_market_order(Ledger, symbol, quantity, transaction_type, price, date)
            sign == IF transaction_type = "BUY" THEN 1 ELSE -1
        IN r.ret # None =>
             /\ r.cash = cash - sign * quantity * price
             /\ \A sym \in LedgerSymbols :
                   HeldQuantity(r.holdings, sym) =
                       HeldQuantity(holdings, sym)
                           + (IF sym = symbol THEN sign * quantity ELSE 0)
             /\ \A price_data \in LedgerPriceData :
                   price_data[with_NS(symbol)] = price =>
                       SameValue(get_portfolio_value(r, price_data),
                                 get_portfolio_value(Ledger, price_data))

\* two positions are held after a BUY at a positive price was executed, so
\* that a SELL of either is a successful order here
C15_Witness ==
    /\ Len(holdings) = 2
    /\ ret # None
    /\ transactions # <<>>
    /\ transactions[Len(transactions)].action = "BUY"
    /\ transactions[Len(transactions)].price > 0

\* txs is the beginning of more, record for record
IsPrefix(txs, more) ==
    /\ Len(txs) <= Len(more)
    /\ \A i \in 1..Len(txs) : more[i] = txs[i]

\* C16: every successful BUY or SELL appends exactly one record (date,
\* symbol, action, quantity, price, cash_after = the cash right after the
\* order) to the transaction list, a rejected order appends none, and no
\* call of place_market_order modifies or removes an earlier record.
C16_LogAppendOnly ==
    \A symbol \in LedgerSymbols, quantity \in Quantities,
       transaction_type \in TransactionTypes, price \in OrderPrices, date \in Dates :
        LET r == place_market_order(Ledger, symbol, quantity, transaction_type, price, date)
        IN /\ (r.ret # None /\ transaction_type \in {"BUY", "SELL"}) =>
                r.transactions =
                    Append(transactions,
                           [date |-> date, symbol |-> symbol, action |-> transaction_type,
                            quantity |-> quantity, price |-> price, cash_after |-> r.cash])
           /\ r.ret = None => r.transactions = transactions
           /\ IsPrefix(transactions, r.transactions)

\* a second order was executed after a first one that changed the cash, and
\* both records are in the log
C16_Witness ==
    /\ Len(transactions) = 2
    /\ ret # None
    /\ transactions[2].cash_after = cash
    /\ transactions[1].cash_after # initial_capital
    /\ transactions[1].cash_after # cash

\* the cash before the i-th record of the log was written
CashBefore(i) == IF i = 1 THEN initial_capital ELSE transactions[i - 1].cash_after

\* C17: in the transaction log a BUY record's cash_after is <= the
\* cash_after of the preceding record (the initial capital for the first
\* record), a SELL record's cash_after is >= it, and every cash_after is
\* >= 0.
C17_CashAfterMonotonic ==
    \A i \in 1..Len(transactions) :
        /\ transactions[i].action = "BUY" => transactions[i].cash_after <= CashBefore(i)
        /\ transactions[i].action = "SELL" => transactions[i].cash_after >= CashBefore(i)
        /\ transactions[i].cash_after >= 0

\* a BUY that lowered the cash is followed in the log by a SELL that raised it
C17_Witness ==
    /\ Len(transactions) = 2
    /\ transactions[1].action = "BUY"
    /\ transactions[1].cash_after < initial_capital
    /\ transactions[2].action = "SELL"
    /\ transactions[2].cash_after > transactions[1].cash_after

\* C18: every stored position has quantity >= 1; a SELL of the whole
\* position removes it from holdings in the same operation, and only a
\* BUY of a positive quantity creates a position.
C18_PositionsAtLeastOne ==
    /\ \A i \in 1..Len(holdings) : holdings[i].quantity >= 1
    /\ \A symbol \in LedgerSymbols, quantity \in Quantities,
          transaction_type \in TransactionTypes, price \in OrderPrices, date \in Dates :
        LET r == place_market_order(Ledger, symbol, quantity, transaction_type, price, date)
        IN /\ \A i \in 1..Len(r.holdings) : r.holdings[i].quantity >= 1
           /\ (transaction_type = "SELL" /\ r.ret # None /\ quantity = Position(symbol)) =>
                find_holding(r.holdings, symbol) = 0
           /\ (find_holding(holdings, symbol) = 0 /\ find_holding(r.holdings, symbol) # 0) =>
                transaction_type = "BUY" /\ quantity > 0

\* a SELL of a whole position of more than one share was executed and the
\* position is gone
C18_Witness ==
    /\ Len(transactions) = 2
    /\ ret # None
    /\ transactions[2].action = "SELL"
    /\ transactions[2].quantity > 1
    /\ find_holding(holdings, transactions[2].symbol) = 0

\* -------------------------------------------------------- backtest driver
\* the last pass was made on a rebalance date
OnRebalanceDate == bt.last.path \in {"initial", "rebalance"}

\* the last pass was the first one after a weak-market exit on which the
\* strategy answered with new entries in a strong market
ReentryDate ==
    /\ OnRebalanceDate
    /\ bt.last.exited_before
    /\ ~bt.last.invested_before
    /\ ~bt.last.weak
    /\ bt.last.buys

\* after a rebalance date with a weak market on which every holding had a
\* price the ledger holds nothing and the driver is not invested
WeakExit ==
    (bt.last.path = "rebalance" /\ bt.last.weak /\ bt.last.priced) =>
        holdings = <<>> /\ ~bt.initial_invested

RebalanceCalendar == SeqSet(bt.rebalance_dates)
TradingCalendar == { d \in bt_args.market_days : start_date <= d /\ d <= end_date }

\* C20: the strategy and the allocator are invoked, and orders are placed,
\* only on dates that are in the rebalance calendar and in the trading
\* calendar; for a rebalance date that is not a trading date the ledger is
\* unchanged and nothing is recorded as a rebalance.
C20_OnlyOnTradingRebalanceDates ==
    /\ (bt.last.strategy \/ bt.last.planner) =>
          bt.last.date \in RebalanceCalendar \cap TradingCalendar
    /\ \A i \in 1..Len(transactions) :
          transactions[i].date \in RebalanceCalendar \cap TradingCalendar
    /\ \A d \in RebalanceCalendar \ TradingCalendar :
          /\ ~Contains(bt.recorded, d)
          /\ \A i \in 1..Len(transactions) : transactions[i].date # d

\* ------------------------------------------------- rebalance plan, continued
RebalanceSymbols ==
    SeqSet(plan_args.held_stocks) \cup SeqSet(plan_args.new_entries)
        \cup SeqSet(plan_args.removed_stocks)

\* the rows of the plan that become orders: SELL and BUY rows with a
\* positive quantity
OrderRows(plan) ==
    SelectSeq(plan, LAMBDA r : r.Action \in {"SELL", "BUY"} /\ r.Quantity > 0)

\* C21: a symbol without a price on the rebalance date is skipped by
\* plan_portfolio_rebalance: the plan is returned and holds no order (SELL
\* or BUY row with a positive quantity) for it, so its position is left as
\* it was.
C21_UnpricedSymbolSkipped ==
    (plan_ret # NotRun /\ plan_ret.run = "plan_portfolio_rebalance") =>
        /\ ~plan_ret.raised
        /\ \A sym \in RebalanceSymbols \ DOMAIN plan_args.latest_close :
              sym \notin RowSymbols(OrderRows(plan_ret.plan))

SellRows(plan) == SelectSeq(plan, LAMBDA r : r.Action = "SELL")

\* the price plan_portfolio_rebalance is given for a holding: its Close on
\* as_of_date, 0 when it has none
GivenPrice(sym) ==
    IF sym \in DOMAIN plan_args.latest_close THEN plan_args.latest_close[sym] ELSE 0

RemovedHeld ==
    SelectSeq(plan_args.previous_holdings,
              LAMBDA h : Contains(plan_args.removed_stocks, h.symbol))

\* C22: the plan of plan_portfolio_rebalance has one SELL row for each
\* removed symbol of the previous holdings and none for any other symbol,
\* with the whole held quantity at the given price, and the Invested of the
\* SELL rows adds up to the sum over the removed holdings of quantity x
\* price.
C22_SellRowsAreRemovedInFull ==
    Planned("plan_portfolio_rebalance") =>
        LET sells == SellRows(plan_ret.plan)
        IN /\ RowSymbols(sells) = { h.symbol : h \in SeqSet(RemovedHeld) }
           /\ Len(sells) = Len(RemovedHeld)
           /\ \A i \in 1..Len(sells) : \E h \in SeqSet(RemovedHeld) :
                 /\ sells[i].Symbol = h.symbol
                 /\ sells[i].Quantity = h.quantity
                 /\ sells[i].Price = GivenPrice(h.symbol)
           /\ InvestedSum(sells) =
                 SeqSum(RemovedHeld, LAMBDA h : h.quantity * GivenPrice(h.symbol))

\* two priced holdings are removed, a third is kept and a share is bought
\* with the proceeds
C22_Witness ==
    /\ Planned("plan_portfolio_rebalance")
    /\ Len(SellRows(plan_ret.plan)) = 2
    /\ \A i \in 1..2 : SellRows(plan_ret.plan)[i].Price > 0
    /\ \E i \in 1..2 : SellRows(plan_ret.plan)[i].Quantity > 1
    /\ BuyRows(plan_ret.plan) # <<>>
    /\ \E i \in 1..Len(plan_ret.plan) : plan_ret.plan[i].Action = "HOLD"

KeptHeld ==
    SelectSeq(plan_args.previous_holdings,
              LAMBDA h : Contains(plan_args.held_stocks, h.symbol))

RowsFor(plan, sym, action) ==
    SelectSeq(plan, LAMBDA r : r.Symbol = sym /\ r.Action = action)

\* C23: the plan of plan_portfolio_rebalance keeps every held position
\* whole: one HOLD row with exactly the quantity held before, no SELL row,
\* and additional shares only as a separate BUY row of its own quantity;
\* HOLD rows are for held symbols only.
C23_KeptPositionNeverTrimmed ==
    Planned("plan_portfolio_rebalance") =>
        /\ \A h \in SeqSet(KeptHeld) :
              /\ Len(RowsFor(plan_ret.plan, h.symbol, "HOLD")) = 1
              /\ RowsFor(plan_ret.plan, h.symbol, "HOLD")[1].Quantity = h.quantity
              /\ RowsFor(plan_ret.plan, h.symbol, "SELL") = <<>>
              /\ Len(RowsFor(plan_ret.plan, h.symbol, "BUY")) <= 1
              /\ \A i \in 1..Len(RowsFor(plan_ret.plan, h.symbol, "BUY")) :
                    RowsFor(plan_ret.plan, h.symbol, "BUY")[i].Quantity > 0
        /\ \A i \in 1..Len(plan_ret.plan) :
              plan_ret.plan[i].Action = "HOLD" =>
                  plan_ret.plan[i].Symbol \in { h.symbol : h \in SeqSet(KeptHeld) }

\* a held position of two shares is kept and topped up: a HOLD row of two
\* shares and a BUY row for the same symbol, next to a SELL of another
C23_Witness ==
    /\ Planned("plan_portfolio_rebalance")
    /\ SellRows(plan_ret.plan) # <<>>
    /\ \E h \in SeqSet(KeptHeld) :
          /\ h.quantity = 2
          /\ RowsFor(plan_ret.plan, h.symbol, "HOLD") # <<>>
          /\ RowsFor(plan_ret.plan, h.symbol, "BUY") # <<>>

RebalanceSteps ==
    rebalance_steps(plan_args.held_stocks, plan_args.new_entries,
                    plan_args.removed_stocks, plan_args.previous_holdings,
                    plan_args.latest_close, plan_args.tie)

FinalPortfolio == SeqSet(plan_args.held_stocks) \cup SeqSet(plan_args.new_entries)

\* value of a symbol of the final portfolio before the rebalance, at the
\* given price
PreExistingValue(sym) ==
    HeldQuantity(KeptHeld, sym) * GivenPrice(sym)

BoughtValue(sym) == InvestedSum(RowsFor(plan_ret.plan, sym, "BUY"))

\* C24: plan_portfolio_rebalance never over-allocates: for every symbol of
\* the final portfolio whose value before the rebalance is at most the
\* equal-weight target, that value plus the Invested of its BUY rows is at
\* most the target; and the fallback step buys at most one share.
C24_NeverOverAllocates ==
    Planned("plan_portfolio_rebalance") /\ plan_args.previous_holdings # <<>> =>
        /\ \A sym \in FinalPortfolio :
              Scaled(PreExistingValue(sym)) * RebalanceSteps.tden <= RebalanceSteps.tnum
                  => Scaled(PreExistingValue(sym) + BoughtValue(sym)) * RebalanceSteps.tden
                        <= RebalanceSteps.tnum
        /\ \A i \in 1..Len(RebalanceSteps.fallback_exec) :
              RebalanceSteps.fallback_exec[i].Quantity <= 1

\* ------------------------------------------------- weighted backtest driver
\* C25: in a run of the backtest every BUY order submitted from a plan is
\* executed by the ledger: on every rebalance date, a re-entry after a weak
\* market included, none is rejected for insufficient funds.
C25_PlannedBuysAccepted ==
    bt # NotRun => bt.last.buys_done = bt.last.buy_orders

\* ------------------------------------------------ backtest driver, continued
\* C26: after every rebalance date of run_backtest the driver's
\* initial_invested flag is true exactly when the ledger holds a position;
\* so the initial-investment path runs only on an empty ledger and the
\* rebalance path only on a ledger with a position.
C26_InvestedIffHoldings ==
    (bt # NotRun /\ ~bt.raised) =>
        /\ bt.initial_invested <=> holdings # <<>>
        /\ bt.last.path = "initial" => ~bt.last.held_before
        /\ bt.last.path = "rebalance" => bt.last.held_before

\* an initial investment whose plan bought nothing: execute_initial_investment
\* returned success, the ledger is still empty and the flag is false again
C26_Witness ==
    /\ bt # NotRun /\ ~bt.raised
    /\ bt.last.path = "initial"
    /\ bt.last.planner
    /\ bt.last.exited_before
    /\ holdings = <<>>
    /\ ~bt.initial_invested

\* --------------------------------------------------- legacy backtest loop
\* the holdings the last pass of the legacy loop removed from
\* current_holdings
LegacyRemoved ==
    SelectSeq(bt.before.current_holdings,
              LAMBDA h : \A k \in 1..Len(bt.current_holdings) :
                            bt.current_holdings[k].symbol # h.symbol)

\* the sell price of a holding on the date of the last pass
LegacySellPrice(h) == get_price_on_date(bt_args.price_data, h.symbol, bt.done)

\* what the last pass paid for the shares it bought
LegacyBought ==
    SeqSum(SelectSeq(bt.current_holdings,
                     LAMBDA h : \A k \in 1..Len(bt.before.current_holdings) :
                                   bt.before.current_holdings[k].symbol # h.symbol),
           LAMBDA h : h.qty * h.buy_price)

\* C27: the legacy backtest loop never drops shares without proceeds: a
\* holding leaves current_holdings only when a sell price is available on
\* the rebalance date, and the cash is then credited with quantity x that
\* price.
C27_NoSharesDroppedWithoutProceeds ==
    (bt # NotRun /\ bt.done > 0) =>
        /\ \A h \in SeqSet(LegacyRemoved) :
              LegacySellPrice(h).price # NoClose /\ LegacySellPrice(h).price # 0
        /\ bt.cash + LegacyBought =
              bt.before.cash + SeqSum(LegacyRemoved,
                                      LAMBDA h : h.qty * Max(0, LegacySellPrice(h).price))

\* ------------------------------------------------------ ledger, continued
\* C28: place_market_order returns an order id only for an order it
\* executed (holdings changed, one transaction record appended); for a
\* transaction_type that is neither BUY nor SELL it returns None and
\* changes nothing.
C28_OrderIdOnlyWhenExecuted ==
    \A symbol \in LedgerSymbols, quantity \in Quantities,
       transaction_type \in TransactionTypes, price \in OrderPrices, date \in Dates :
        LET r == place_market_order(Ledger, symbol, quantity, transaction_type, price, date)
        IN /\ r.ret # None =>
                /\ Len(r.transactions) = Len(transactions) + 1
                /\ r.holdings # holdings
           /\ transaction_type \notin {"BUY", "SELL"} =>
                /\ r.ret = None
                /\ r.cash = cash
                /\ r.holdings = holdings
                /\ r.transactions = transactions

\* C29: _maximize_capital_deployment terminates for every non-empty
\* portfolio with positive prices and every finite capital: each pass of its
\* allocation loop either buys at least one share, lowering the remaining
\* capital by at least the cheapest price, or leaves the loop.
\* The pass just taken, as the claim describes it:
C29_EachPassLowersOrLeaves ==
    (plan_args.run = "_maximize_capital_deployment" /\ plan_ret.last.taken) =>
        LET l == plan_ret.last
        IN IF l.round_orders = <<>> THEN plan_ret.pc # "while"
           ELSE /\ SeqSum(l.round_orders, LAMBDA r : r.Quantity) >= 1
                /\ plan_ret.remaining_capital
                     <= l.before - MinPrice(plan_args.df_holdings)

\* and the termination itself, under SpecDeployFair
DeploymentReturns ==
    <>(plan_args.run = "_maximize_capital_deployment" => plan_ret.pc = "returned")

\* C30: plan_capital_withdrawal never plans an oversell: for every requested
\* amount or percentage and every holding, the Quantity of each SELL row is
\* <= the held quantity of that symbol, and for a partial withdrawal the
\* total Invested of the SELL rows is <= the requested withdrawal amount.
WithdrawalPlanned == plan_args.run = "run_withdraw" /\ plan_ret # NotRun
                        /\ plan_ret.outcome = "planned"
HeldOf(sym) ==
    SeqSum(plan_args.previous_holdings,
           LAMBDA h : IF h.symbol = sym THEN h.quantity ELSE 0)
\* Invested total <= withdrawal amount, both times 100
WithinRequest ==
    LET total == total_portfolio_value(plan_args.previous_holdings,
                                       plan_args.latest_close)
    IN IF plan_args.percentage # None
       THEN 100 * InvestedSum(plan_ret.plan) <= total * plan_args.percentage[1]
       ELSE 100 * InvestedSum(plan_ret.plan) <= 100 * plan_args.amount[1]
C30_NeverOversells ==
    WithdrawalPlanned =>
        /\ \A i \in 1..Len(plan_ret.plan) :
              plan_ret.plan[i].Action = "SELL"
                 => plan_ret.plan[i].Quantity <= HeldOf(plan_ret.plan[i].Symbol)
        /\ ~plan_args.full => WithinRequest

=============================================================================
